---- MODULE Spec2Model ----
(***************************************************************************)
(* KZG polynomial commitments (ecc/bls12-377/fr/kzg/kzg.go) and the        *)
(* accumulating-ratio builders (ecc/bw6-756/fr/iop/ratios.go).             *)
(*                                                                         *)
(* Scalars are the integers modulo the prime Q.  A group element [x]G is   *)
(* represented by its exponent x modulo Q (both groups have order Q), so   *)
(* the pairing e([a]G1, [b]G2) is represented by the exponent a*b and a    *)
(* pairing product equals one iff the sum of those exponents is 0 mod Q.   *)
(***************************************************************************)
EXTENDS Integers, Sequences, FiniteSets, TLC

\* ------------------------------------------------------------------ bounds
MaxSRS == 3        \* SRS sizes 2..MaxSRS
MaxLen == 3        \* polynomial lengths 0..MaxLen
MaxLogCard == 2    \* domain cardinalities 2^0 .. 2^MaxLogCard
MaxBatch == 2      \* polynomials (proofs) per batch 0..MaxBatch
MaxPolys == 2      \* polynomials per list handed to the ratio builders
MaxLogN == 2       \* ratio polynomial sizes 2^0 .. 2^MaxLogN
MaxEvals == 8      \* evaluations per list: polynomials times size

\* ------------------------------------------------- scalar field and groups
\* order of the scalar field fr (and of G1, G2)
Q == 5

Fr == 0 .. (Q - 1)

FrAdd(a, b) == (a + b) % Q
FrSub(a, b) == (a - b + Q) % Q
FrMul(a, b) == (a * b) % Q
FrNeg(a) == (Q - a) % Q

\* group elements by exponent; 0 is the identity (the zero value Digest{})
G1 == 0 .. (Q - 1)
G1Add(a, b) == (a + b) % Q
G1Neg(a) == (Q - a) % Q
G1Sub(a, b) == G1Add(a, G1Neg(b))
G1ScalarMultiplication(p, s) == (p * s) % Q
G2Add(a, b) == (a + b) % Q
G2Neg(a) == (Q - a) % Q
G2ScalarMultiplication(p, s) == (p * s) % Q

\* exponents of the generators returned by Generators()
gen1Aff == 1
gen2Aff == 1

\* the product of the pairings e(P[i], T[i]) is one
PairingCheck(P, T) ==
    LET RECURSIVE acc(_)
        acc(i) == IF i = 0 THEN 0 ELSE (acc(i - 1) + P[i] * T[i]) % Q
    IN acc(Len(P)) = 0

\* sum of scalars[i] . points[i]
MultiExp(points, scalars) ==
    LET RECURSIVE acc(_)
        acc(i) == IF i = 0 THEN 0
                  ELSE G1Add(acc(i - 1), G1ScalarMultiplication(points[i], scalars[i]))
    IN acc(Len(points))

\* polynomial.Eval: Horner evaluation of the coefficient list p at x
Eval(p, x) ==
    LET RECURSIVE horner(_)
        horner(i) == IF i > Len(p) THEN 0
                     ELSE FrAdd(p[i], FrMul(x, horner(i + 1)))
    IN horner(1)

\* ------------------------------------------------------------------ errors
nil == "nil"
ErrInvalidNbDigests == "ErrInvalidNbDigests"
ErrInvalidPolynomialSize == "ErrInvalidPolynomialSize"
ErrVerifyOpeningProof == "ErrVerifyOpeningProof"
ErrInvalidDomain == "ErrInvalidDomain"
ErrMinSRSSize == "ErrMinSRSSize"

\* ------------------------------------------------------------------ NewSRS
FrPow(a, n) ==
    LET RECURSIVE pw(_)
        pw(i) == IF i = 0 THEN 1 ELSE FrMul(pw(i - 1), a)
    IN pw(n)

NoSRS == [G1 |-> << >>, G2 |-> << >>]

\* fr.Element.SetBigInt: the big integer reduced modulo Q
FrSetBigInt(b) == b % Q

\* NewSRS whose powers of alpha start one too high
NewSRSPowersShifted(size, bAlpha) ==
    IF size < 2 THEN [err |-> ErrMinSRSSize, srs |-> NoSRS]
    ELSE LET alpha == FrSetBigInt(bAlpha)
             alphas == [i \in 1 .. (size - 1) |-> FrPow(alpha, i + 1)]
             g1s == [i \in 1 .. (size - 1) |-> G1ScalarMultiplication(gen1Aff, alphas[i])]
         IN [err |-> nil,
             srs |-> [G1 |-> <<gen1Aff>> \o g1s,
                      G2 |-> <<gen2Aff, G2ScalarMultiplication(gen2Aff, bAlpha)>>]]

\* bAlpha: the big integer passed for alpha
NewSRS(size, bAlpha) ==
    IF size < 2 THEN [err |-> ErrMinSRSSize, srs |-> NoSRS]
    ELSE LET alpha == FrSetBigInt(bAlpha)
             alphas == [i \in 1 .. (size - 1) |-> FrPow(alpha, i)]
             g1s == [i \in 1 .. (size - 1) |-> G1ScalarMultiplication(gen1Aff, alphas[i])]
         IN [err |-> nil,
             srs |-> [G1 |-> <<gen1Aff>> \o g1s,
                      G2 |-> <<gen2Aff, G2ScalarMultiplication(gen2Aff, bAlpha)>>]]

\* ------------------------------------------------------------------ Commit
\* runtime.NumCPU() above which Commit splits the multi exponentiation
SplitCpus == 16

\* the second half taken from the first bases
CommitPart2FromFirstBases(p, s) ==
    LET m == Len(p) \div 2
    IN MultiExp(SubSeq(s.G1, 1, Len(p) - m), SubSeq(p, m + 1, Len(p)))

\* the halves of the split: p1 over srs.G1[:m], p[:m] and p2 over the rest
CommitPart1(p, s) ==
    LET m == Len(p) \div 2
    IN MultiExp(SubSeq(s.G1, 1, m), SubSeq(p, 1, m))
CommitPart2(p, s) ==
    LET m == Len(p) \div 2
    IN MultiExp(SubSeq(s.G1, m + 1, Len(p)), SubSeq(p, m + 1, Len(p)))

\* opt: a CPUSemaphore was supplied;  ncpu: runtime.NumCPU()
Commit(p, s, opt, ncpu) ==
    IF Len(p) = 0 \/ Len(p) > Len(s.G1)
    THEN [err |-> ErrInvalidPolynomialSize, digest |-> 0]
    ELSE IF opt
    THEN [err |-> nil, digest |-> MultiExp(SubSeq(s.G1, 1, Len(p)), p)]
    ELSE IF ncpu > SplitCpus
    THEN [err |-> nil, digest |-> G1Add(CommitPart1(p, s), CommitPart2(p, s))]
    ELSE [err |-> nil, digest |-> MultiExp(SubSeq(s.G1, 1, Len(p)), p)]

\* ----------------------------------------------------- dividePolyByXminusA
\* the loop "for i := len(f)-1; i >= 0; i--" with carry c, at 1-based index i
\* one turn of the loop without the product t = c * a
divStepDropsProduct(f, c, a, i) ==
    [f |-> [f EXCEPT ![i] = c], c |-> f[i]]

\* one turn: t = c * a; f[i] += t; c, f[i] = f[i], c
divStep(f, c, a, i) ==
    LET t == FrMul(c, a)
        fi == FrAdd(f[i], t)
    IN [f |-> [f EXCEPT ![i] = c], c |-> fi]

RECURSIVE divLoop(_, _, _, _)
divLoop(f, c, a, i) ==
    IF i = 0 THEN f
    ELSE LET st == divStep(f, c, a, i)
         IN divLoop(st.f, st.c, a, i - 1)

\* f has capacity card, zero beyond its length
dividePolyByXminusA(card, f, fa, a) ==
    LET degree == Len(f) - 1
        full == [i \in 1 .. card |-> IF i <= Len(f) THEN f[i] ELSE 0]
        sub == [full EXCEPT ![1] = FrSub(full[1], fa)]
        res == divLoop(sub, 0, a, card)
    IN SubSeq(res, 1, degree)

\* -------------------------------------------------------------------- Open
NoProof == [H |-> 0, Point |-> 0, ClaimedValue |-> 0]

Open(p, pt, card, s, ncpu) ==
    IF Len(p) = 0 \/ Len(p) > Len(s.G1)
    THEN [err |-> ErrInvalidPolynomialSize, proof |-> NoProof]
    ELSE IF Len(p) > card
    THEN [err |-> ErrInvalidDomain, proof |-> NoProof]
    ELSE LET cv == Eval(p, pt)
             h == dividePolyByXminusA(card, p, cv, pt)
             hCommit == Commit(h, s, FALSE, ncpu)
         IN IF hCommit.err # nil
            THEN [err |-> hCommit.err, proof |-> NoProof]
            ELSE [err |-> nil,
                  proof |-> [H |-> hCommit.digest, Point |-> pt, ClaimedValue |-> cv]]

\* ------------------------------------------------------------------ Verify
\* Verify without the subtraction of [ClaimedValue]G1 from the commitment
VerifyDropsClaimedValue(commitment, proof, s) ==
    LET negH == G1Neg(proof.H)
        alphaMinusaG2 == G2Add(G2Neg(G2ScalarMultiplication(s.G2[1], proof.Point)), s.G2[2])
        check == PairingCheck(<<commitment, negH>>, <<s.G2[1], alphaMinusaG2>>)
    IN IF ~check THEN ErrVerifyOpeningProof ELSE nil

Verify(commitment, proof, s) ==
    LET claimedValueG1Aff == G1ScalarMultiplication(s.G1[1], proof.ClaimedValue)
        fminusfaG1 == G1Sub(commitment, claimedValueG1Aff)
        negH == G1Neg(proof.H)
        alphaMinusaG2 == G2Add(G2Neg(G2ScalarMultiplication(s.G2[1], proof.Point)), s.G2[2])
        check == PairingCheck(<<fminusfaG1, negH>>, <<s.G2[1], alphaMinusaG2>>)
    IN IF ~check THEN ErrVerifyOpeningProof ELSE nil

\* ------------------------------------------- hash.Hash and the transcript
\* a hash.Hash object: the data written since the last Reset
hashReset == << >>
hashWrite(h, bytes) == h \o bytes
hashSum(h) ==
    LET RECURSIVE acc(_)
        acc(i) == IF i = 0 THEN 7 ELSE (acc(i - 1) * 31 + h[i] + 1) % 251
    IN acc(Len(h))

\* fr.Element.Marshal / G1Affine.Marshal: the canonical encoding, one limb
frMarshal(x) == <<x>>
g1Marshal(x) == <<x>>
\* fr.Element.SetBytes: the bytes as an integer, reduced
frSetBytes(b) == b % Q

\* the label "gamma" as written to the hash
LabelGamma == 103

errTranscriptBind == "errTranscriptBind"
errTranscriptChallenge == "errTranscriptChallenge"
FsFailures == {"none", "bindPoint", "bindDigest", "challenge"}

\* fiatshamir.NewTranscript(hf, label): one challenge, nothing bound yet
NewTranscript(label) == [label |-> label, bindings |-> << >>]
\* Transcript.Bind: the bound values are kept in the order they were added
TranscriptBind(t, bytes) == [t EXCEPT !.bindings = @ \o bytes]
\* Transcript.ComputeChallenge: H(label || bound values) on the reset hash
ComputeChallenge(t) ==
    LET h == hashWrite(hashWrite(hashReset, <<t.label>>), t.bindings)
    IN [bytes |-> hashSum(h), hf |-> h]

\* ------------------------------------------------------------- deriveGamma
RECURSIVE bindDigests(_, _, _)
bindDigests(t, digests, i) ==
    IF i > Len(digests) THEN t
    ELSE bindDigests(TranscriptBind(t, g1Marshal(digests[i])), digests, i + 1)

\* deriveGamma that does not bind the evaluation point
deriveGammaUnboundPoint(pt, digests, hf, fail) ==
    IF fail = "bindPoint" THEN [gamma |-> 0, err |-> errTranscriptBind, hf |-> hf]
    ELSE IF fail = "bindDigest" /\ Len(digests) > 0
    THEN [gamma |-> 0, err |-> errTranscriptBind, hf |-> hf]
    ELSE IF fail = "challenge"
    THEN [gamma |-> 0, err |-> errTranscriptChallenge, hf |-> hf]
    ELSE LET fs == bindDigests(NewTranscript(LabelGamma), digests, 1)
             ch == ComputeChallenge(fs)
         IN [gamma |-> frSetBytes(ch.bytes), err |-> nil, hf |-> hashReset]

\* fail: the transcript call that returns an error, if any
deriveGamma(pt, digests, hf, fail) ==
    IF fail = "bindPoint" THEN [gamma |-> 0, err |-> errTranscriptBind, hf |-> hf]
    ELSE IF fail = "bindDigest" /\ Len(digests) > 0
    THEN [gamma |-> 0, err |-> errTranscriptBind, hf |-> hf]
    ELSE IF fail = "challenge"
    THEN [gamma |-> 0, err |-> errTranscriptChallenge, hf |-> hf]
    ELSE LET fs0 == TranscriptBind(NewTranscript(LabelGamma), frMarshal(pt))
             fs == bindDigests(fs0, digests, 1)
             ch == ComputeChallenge(fs)
         IN [gamma |-> frSetBytes(ch.bytes), err |-> nil, hf |-> hashReset]

\* ---------------------------------------------------- BatchOpenSinglePoint
\* a run-time panic (index out of range, makeslice: len out of range)
Panic == "panic"
NoBatchProof == [H |-> 0, Point |-> 0, ClaimedValues |-> << >>]

\* the validation loop "for _, p := range polynomials", from index i
RECURSIVE checkPolys(_, _, _, _)
checkPolys(polynomials, s, card, i) ==
    IF i > Len(polynomials) THEN nil
    ELSE IF Len(polynomials[i]) = 0 \/ Len(polynomials[i]) > Len(s.G1)
    THEN ErrInvalidPolynomialSize
    ELSE IF Len(polynomials[i]) > card THEN ErrInvalidDomain
    ELSE checkPolys(polynomials, s, card, i + 1)

largestPolyOf(polynomials) ==
    LET RECURSIVE mx(_)
        mx(i) == IF i = 0 THEN -1
                 ELSE IF Len(polynomials[i]) > mx(i - 1) THEN Len(polynomials[i])
                 ELSE mx(i - 1)
    IN mx(Len(polynomials))

\* sum_i gamma^i * ClaimedValues[i], from the highest index down
sumGammaiTimesEvalOf(claimed, gamma) ==
    LET n == Len(claimed)
        RECURSIVE hz(_)
        hz(i) == IF i = n THEN claimed[n]
                 ELSE FrAdd(FrMul(hz(i + 1), gamma), claimed[i])
    IN hz(1)

\* sum_i gamma^i * polynomials[i], of length largest
sumGammaiTimesPolOf(polynomials, gamma, largest) ==
    LET coef(p, j) == IF j <= Len(p) THEN p[j] ELSE 0
        RECURSIVE acc(_)
        acc(i) == IF i = 1 THEN [j \in 1 .. largest |-> coef(polynomials[1], j)]
                  ELSE [j \in 1 .. largest |->
                          FrAdd(acc(i - 1)[j],
                                FrMul(coef(polynomials[i], j), FrPow(gamma, i - 1)))]
    IN acc(Len(polynomials))

BatchOpenSinglePoint(polynomials, digests, pt, hf, card, s, ncpu, fail) ==
    LET bad(e, h) == [err |-> e, proof |-> NoBatchProof, hf |-> h, gamma |-> 0]
        sizes == checkPolys(polynomials, s, card, 1)
        claimed == [i \in 1 .. Len(polynomials) |-> Eval(polynomials[i], pt)]
        dg == deriveGamma(pt, digests, hf, fail)
    IN IF Len(digests) # Len(polynomials) THEN bad(ErrInvalidNbDigests, hf)
       ELSE IF sizes # nil THEN bad(sizes, hf)
       ELSE IF dg.err # nil THEN bad(dg.err, dg.hf)
       ELSE IF Len(polynomials) = 0 THEN bad(Panic, dg.hf)
       ELSE LET largest == largestPolyOf(polynomials)
                sumEval == sumGammaiTimesEvalOf(claimed, dg.gamma)
                sumPol == sumGammaiTimesPolOf(polynomials, dg.gamma, largest)
                h == dividePolyByXminusA(card, sumPol, sumEval, pt)
                hCommit == Commit(h, s, FALSE, ncpu)
            IN IF hCommit.err # nil THEN bad(hCommit.err, dg.hf)
               ELSE [err |-> nil,
                     proof |-> [H |-> hCommit.digest, Point |-> pt, ClaimedValues |-> claimed],
                     hf |-> dg.hf,
                     gamma |-> dg.gamma]

\* -------------------------------------------------------------------- fold
fold(digests, evaluations, factors) ==
    LET RECURSIVE fe(_)
        fe(i) == IF i = 0 THEN 0
                 ELSE FrAdd(fe(i - 1), FrMul(evaluations[i], factors[i]))
    IN [digest |-> MultiExp(digests, factors), evaluation |-> fe(Len(digests))]

\* --------------------------------------------------------------- FoldProof
FoldProof(digests, batchOpeningProof, hf, fail) ==
    LET nbDigests == Len(digests)
        bad(e, h) == [err |-> e, proof |-> NoProof, digest |-> 0, hf |-> h, gamma |-> 0]
        dg == deriveGamma(batchOpeningProof.Point, digests, hf, fail)
        gammai == [i \in 1 .. nbDigests |-> FrPow(dg.gamma, i - 1)]
        folded == fold(digests, batchOpeningProof.ClaimedValues, gammai)
    IN IF nbDigests # Len(batchOpeningProof.ClaimedValues) THEN bad(ErrInvalidNbDigests, hf)
       ELSE IF dg.err # nil THEN bad(ErrInvalidNbDigests, dg.hf)
       ELSE IF nbDigests = 0 THEN bad(Panic, dg.hf)
       ELSE [err |-> nil,
             proof |-> [H |-> batchOpeningProof.H,
                        Point |-> batchOpeningProof.Point,
                        ClaimedValue |-> folded.evaluation],
             digest |-> folded.digest,
             hf |-> dg.hf,
             gamma |-> dg.gamma]

\* -------------------------------------------------- BatchVerifySinglePoint
BatchVerifySinglePoint(digests, batchOpeningProof, hf, s, fail) ==
    LET f == FoldProof(digests, batchOpeningProof, hf, fail)
    IN IF f.err # nil THEN [err |-> f.err, hf |-> f.hf]
       ELSE [err |-> Verify(f.digest, f.proof, s), hf |-> f.hf]

\* -------------------------------------------------- BatchVerifyMultiPoints
\* BatchVerifyMultiPoints with foldedQuotients left un-negated
BatchVerifyMultiPointsNoNeg(ds, proofs, s, drawn) ==
    IF Len(ds) # Len(proofs) THEN ErrInvalidNbDigests
    ELSE IF Len(ds) = 1 THEN Verify(ds[1], proofs[1], s)
    ELSE IF Len(ds) = 0 THEN Panic
    ELSE LET n == Len(ds)
             randomNumbers == [i \in 1 .. n |-> IF i = 1 THEN 1 ELSE drawn[i]]
             quotients == [i \in 1 .. n |-> proofs[i].H]
             foldedQuotients == MultiExp(quotients, randomNumbers)
             evals == [i \in 1 .. n |-> proofs[i].ClaimedValue]
             folded == fold(ds, evals, randomNumbers)
             foldedEvalsCommit == G1ScalarMultiplication(s.G1[1], folded.evaluation)
             foldedDigests1 == G1Sub(folded.digest, foldedEvalsCommit)
             randomPoints == [i \in 1 .. n |-> FrMul(randomNumbers[i], proofs[i].Point)]
             foldedPointsQuotients == MultiExp(quotients, randomPoints)
             foldedDigests2 == G1Add(foldedDigests1, foldedPointsQuotients)
             check == PairingCheck(<<foldedDigests2, foldedQuotients>>, <<s.G2[1], s.G2[2]>>)
         IN IF ~check THEN ErrVerifyOpeningProof ELSE nil

\* drawn[i], i >= 2: the value SetRandom gives randomNumbers[i-1]
BatchVerifyMultiPoints(ds, proofs, s, drawn) ==
    IF Len(ds) # Len(proofs) THEN ErrInvalidNbDigests
    ELSE IF Len(ds) = 1 THEN Verify(ds[1], proofs[1], s)
    ELSE IF Len(ds) = 0 THEN Panic
    ELSE LET n == Len(ds)
             randomNumbers == [i \in 1 .. n |-> IF i = 1 THEN 1 ELSE drawn[i]]
             quotients == [i \in 1 .. n |-> proofs[i].H]
             foldedQuotients == MultiExp(quotients, randomNumbers)
             evals == [i \in 1 .. n |-> proofs[i].ClaimedValue]
             folded == fold(ds, evals, randomNumbers)
             foldedEvalsCommit == G1ScalarMultiplication(s.G1[1], folded.evaluation)
             foldedDigests1 == G1Sub(folded.digest, foldedEvalsCommit)
             randomPoints == [i \in 1 .. n |-> FrMul(randomNumbers[i], proofs[i].Point)]
             foldedPointsQuotients == MultiExp(quotients, randomPoints)
             foldedDigests2 == G1Add(foldedDigests1, foldedPointsQuotients)
             negFoldedQuotients == G1Neg(foldedQuotients)
             check == PairingCheck(<<foldedDigests2, negFoldedQuotients>>, <<s.G2[1], s.G2[2]>>)
         IN IF ~check THEN ErrVerifyOpeningProof ELSE nil

\* ------------------------------------------------ iop: field and domain
\* order of the scalar field fr of ecc/bw6-756, and a generator of its
\* multiplicative group (the domain's FrMultiplicativeGen)
QI == 17
FrMultiplicativeGen == 3

FrI == 0 .. (QI - 1)
IAdd(a, b) == (a + b) % QI
ISub(a, b) == (a - b + QI) % QI
IMul(a, b) == (a * b) % QI
IPow(a, n) ==
    LET RECURSIVE pw(_)
        pw(i) == IF i = 0 THEN 1 ELSE IMul(pw(i - 1), a)
    IN pw(n)
\* fr.Element.Inverse: the inverse, and 0 for 0
IInverse(a) == IPow(a, QI - 2)
\* fr.BatchInvert: entry-wise inverses, zero entries left zero
BatchInvert(t) == [i \in 1 .. Len(t) |-> IInverse(t[i])]

\* fft.NewDomain(n), n a power of two dividing QI - 1
NewDomain(n) ==
    LET w == IPow(FrMultiplicativeGen, (QI - 1) \div n)
    IN [Cardinality |-> n,
        Generator |-> w,
        FrMultiplicativeGen |-> FrMultiplicativeGen,
        Twiddles0 |-> [i \in 1 .. (n \div 2) |-> IPow(w, i - 1)]]

\* bits.Reverse64(i) >> (64 - k): the k low bits of i reversed
RECURSIVE ReverseBits(_, _)
ReverseBits(i, k) ==
    IF k = 0 THEN 0 ELSE (i % 2) * 2 ^ (k - 1) + ReverseBits(i \div 2, k - 1)

\* bits.TrailingZeros(n) for a power of two n >= 1
RECURSIVE TrailingZeros(_)
TrailingZeros(n) == IF n % 2 = 1 THEN 0 ELSE 1 + TrailingZeros(n \div 2)

\* ------------------------------------------------------------ iop errors
ErrInconsistentSize == "ErrInconsistentSize"
ErrNumberPolynomials == "ErrNumberPolynomials"
ErrSizeNotPowerOfTwo == "ErrSizeNotPowerOfTwo"
ErrInconsistentSizeDomain == "ErrInconsistentSizeDomain"

Regular == "Regular"
BitReverse == "BitReverse"

\* --------------------------------------------------------------- checkSize
\* pols: the lists passed (variadic); both loops run to the number of lists
checkSize(pols) ==
    LET m == Len(pols)
        n == Len(pols[1][1].coefficients)
        RECURSIVE scan(_, _)
        scan(i, j) ==
            IF i >= m THEN nil
            ELSE IF j >= m THEN scan(i + 1, 0)
            ELSE IF j >= Len(pols[i + 1]) THEN Panic
            ELSE IF Len(pols[i + 1][j + 1].coefficients) # n THEN ErrInconsistentSize
            ELSE scan(i, j + 1)
    IN IF Len(pols[1]) = 0 THEN Panic ELSE scan(0, 0)

\* ------------------------------------------------------------- buildDomain
IsPowerOfTwoOrZero(n) ==
    LET RECURSIVE p2(_)
        p2(k) == IF k <= 1 THEN TRUE ELSE IF k % 2 = 1 THEN FALSE ELSE p2(k \div 2)
    IN p2(n)

\* domainCard: the Cardinality of the domain passed, 0 for a nil domain
buildDomain(n, domainCard) ==
    IF ~IsPowerOfTwoOrZero(n) THEN [err |-> ErrSizeNotPowerOfTwo, card |-> 0]
    ELSE IF domainCard # 0 /\ domainCard # n THEN [err |-> ErrInconsistentSizeDomain, card |-> 0]
    ELSE [err |-> nil, card |-> n]

\* ----------------------------------------------- BuildRatioShuffledVectors
NoRatio == << >>

\* the index read at step i (0-based) in a polynomial of the given layout
StepIndex(p, i, n) ==
    IF p.Layout = BitReverse THEN ReverseBits(i, TrailingZeros(n)) ELSE i

\* some step reads beyond the end of a polynomial
ReadsOutOfRange(ps, n) ==
    \E j \in 1 .. Len(ps) : \E i \in 0 .. (n - 2) :
        StepIndex(ps[j], i, n) >= Len(ps[j].coefficients)

\* the term of the first polynomial alone
ShuffleTermFirstOnly(ps, beta, i, n) ==
    ISub(beta, ps[1].coefficients[StepIndex(ps[1], i, n) + 1])

\* prod_j (beta - ps[j](w^i))
ShuffleTerm(ps, beta, i, n) ==
    LET RECURSIVE pr(_)
        pr(j) == IF j = 0 THEN 1
                 ELSE IMul(pr(j - 1),
                           ISub(beta, ps[j].coefficients[StepIndex(ps[j], i, n) + 1]))
    IN pr(Len(ps))

\* the running products coeffs[i+1] = coeffs[i] * terms[i], coeffs[0] = 1,
\* of the n-1 step terms
RunningProduct(terms) ==
    LET RECURSIVE rp(_)
        rp(i) == IF i = 0 THEN 1 ELSE IMul(rp(i - 1), terms[i])
    IN [i \in 1 .. (Len(terms) + 1) |-> rp(i - 1)]

\* the result in Lagrange basis, Regular layout (expectedForm Lagrange/Regular)
BuildRatioShuffledVectors(numerator, denominator, beta, domainCard) ==
    LET bad(e) == [err |-> e, coefficients |-> NoRatio]
    IN IF Len(numerator) # Len(denominator) THEN bad(ErrNumberPolynomials)
       ELSE LET cs == checkSize(<<numerator, denominator>>)
            IN IF cs # nil THEN bad(cs)
               ELSE LET n == Len(numerator[1].coefficients)
                        bd == buildDomain(n, domainCard)
                    IN IF bd.err # nil THEN bad(bd.err)
                       ELSE IF n = 0 THEN bad(Panic)
                       ELSE IF ReadsOutOfRange(numerator \o denominator, n) THEN bad(Panic)
                       ELSE LET b == [i \in 1 .. (n - 1) |-> ShuffleTerm(numerator, beta, i - 1, n)]
                                d == [i \in 1 .. (n - 1) |-> ShuffleTerm(denominator, beta, i - 1, n)]
                                coeffs == RunningProduct(b)
                                t == BatchInvert(RunningProduct(d))
                            IN [err |-> nil,
                                coefficients |-> [i \in 1 .. n |->
                                    IF i = 1 THEN coeffs[1] ELSE IMul(coeffs[i], t[i])]]

\* -------------------------------------------- getSupportIdentityPermutation
\* [1, w, .., w^(n-1), g, g w, .., g^(k-1) w^(n-1)], or Panic for n = 1
getSupportIdentityPermutation(nbCopies, n) ==
    IF n < 2 THEN [err |-> Panic, res |-> << >>]
    ELSE LET dom == NewDomain(n)
             RECURSIVE first(_)
             first(i) == IF i < n \div 2 THEN dom.Twiddles0[i + 1]
                         ELSE IMul(first(i - 1), dom.Generator)
             coset(k) == IF k = 1 THEN dom.FrMultiplicativeGen
                         ELSE IPow(dom.FrMultiplicativeGen, k)
         IN [err |-> nil,
             res |-> [x \in 1 .. (nbCopies * n) |->
                        LET k == (x - 1) \div n
                            j == (x - 1) % n
                        IN IF k = 0 THEN first(j) ELSE IMul(first(j), coset(k))]]

\* ------------------------------------------------ BuildRatioCopyConstraint
\* prod_j (beta * id[at[i + j n]] + gamma + entries[j](w^i)), at the identity
\* for the numerator and the permutation for the denominator
CopyTerm(entries, ids, at, beta, gamma, i, n) ==
    LET RECURSIVE pr(_)
        pr(j) == IF j = 0 THEN 1
                 ELSE LET p == entries[j]
                          a == IAdd(IAdd(IMul(beta, ids[at[i + (j - 1) * n + 1] + 1]), gamma),
                                    p.coefficients[StepIndex(p, i, n) + 1])
                      IN IMul(pr(j - 1), a)
    IN pr(Len(entries))

\* permutation: 0-based values, permutation[x + 1] the image of x
BuildRatioCopyConstraint(entries, permutation, beta, gamma, domainCard) ==
    LET bad(e) == [err |-> e, coefficients |-> NoRatio]
        cs == checkSize(<<entries>>)
    IN IF cs # nil THEN bad(cs)
       ELSE LET n == Len(entries[1].coefficients)
                bd == buildDomain(n, domainCard)
                nb == Len(entries)
            IN IF bd.err # nil THEN bad(bd.err)
               ELSE LET ids == getSupportIdentityPermutation(nb, n)
                    IN IF n = 0 \/ ids.err # nil THEN bad(Panic)
                       ELSE IF ReadsOutOfRange(entries, n) THEN bad(Panic)
                       ELSE IF \E j \in 0 .. (nb - 1) : \E i \in 0 .. (n - 2) :
                                  \/ i + j * n >= Len(permutation)
                                  \/ permutation[i + j * n + 1] \notin 0 .. (nb * n - 1)
                       THEN bad(Panic)
                       ELSE LET own == [x \in 1 .. (nb * n) |-> x - 1]
                                b == [i \in 1 .. (n - 1) |->
                                         CopyTerm(entries, ids.res, own, beta, gamma, i - 1, n)]
                                d == [i \in 1 .. (n - 1) |->
                                         CopyTerm(entries, ids.res, permutation, beta, gamma, i - 1, n)]
                                coeffs == RunningProduct(b)
                                t == RunningProduct(d)
                                tInv == BatchInvert(t)
                            IN [err |-> nil,
                                coefficients |-> [i \in 1 .. n |->
                                    IF i = 1 THEN coeffs[1] ELSE IMul(coeffs[i], tInv[i])]]

\* ------------------------------------------------ fft and the final form
Canonical == "Canonical"
Lagrange == "Lagrange"
LagrangeCoset == "LagrangeCoset"

\* fft.BitReverse: the entries in bit-reversed index order
BitReverseSeq(a) ==
    [i \in 1 .. Len(a) |-> a[ReverseBits(i - 1, TrailingZeros(Len(a))) + 1]]

\* sum_k c[k] x^k
EvalCanonical(c, x) ==
    LET RECURSIVE hz(_)
        hz(k) == IF k > Len(c) THEN 0 ELSE IAdd(c[k], IMul(x, hz(k + 1)))
    IN hz(1)

\* domain.FFTInverse(a, fft.DIF): evaluations on 1, w, .. in Regular order in,
\* canonical coefficients in bit-reversed order out
FFTInverseDIF(a) ==
    LET n == Len(a)
        wInv == IInverse(NewDomain(n).Generator)
        c == [k \in 1 .. n |->
                IMul(IInverse(n % QI), EvalCanonical(a, IPow(wInv, k - 1)))]
    IN BitReverseSeq(c)

\* domain.FFT(a, fft.DIT, fft.OnCoset()): canonical coefficients in bit-reversed
\* order in, evaluations on g, g w, .. in Regular order out
FFTOnCosetDIT(a) ==
    LET n == Len(a)
        dom == NewDomain(n)
        c == BitReverseSeq(a)
    IN [j \in 1 .. n |->
           EvalCanonical(c, IMul(dom.FrMultiplicativeGen, IPow(dom.Generator, j - 1)))]

\* putInExpectedFormFromLagrangeRegular without any reordering
putInExpectedFormNoReorder(coefficients, expectedForm) ==
    LET data == IF expectedForm.Basis = Canonical THEN FFTInverseDIF(coefficients)
                ELSE IF expectedForm.Basis = LagrangeCoset
                THEN FFTOnCosetDIT(FFTInverseDIF(coefficients))
                ELSE coefficients
    IN [coefficients |-> data, Basis |-> expectedForm.Basis, Layout |-> expectedForm.Layout]

\* coefficients: the data in Lagrange basis, Regular layout
putInExpectedFormFromLagrangeRegular(coefficients, expectedForm) ==
    LET data ==
          IF expectedForm.Basis = Canonical
          THEN LET inv == FFTInverseDIF(coefficients)
               IN IF expectedForm.Layout = Regular THEN BitReverseSeq(inv) ELSE inv
          ELSE IF expectedForm.Basis = LagrangeCoset
          THEN LET cos == FFTOnCosetDIT(FFTInverseDIF(coefficients))
               IN IF expectedForm.Layout = BitReverse THEN BitReverseSeq(cos) ELSE cos
          ELSE IF expectedForm.Layout = BitReverse THEN BitReverseSeq(coefficients)
          ELSE coefficients
    IN [coefficients |-> data, Basis |-> expectedForm.Basis, Layout |-> expectedForm.Layout]

\* ------------------------------------------------------------------- state
VARIABLES
    srs,        \* the SRS, created once and read-only
    numCpus,    \* runtime.NumCPU()
    point,      \* evaluation point
    card,       \* domain.Cardinality
    pc,         \* the calls made so far
    \* single opening
    poly,       \* polynomial handed to Commit / Open
    digest,     \* Commit's results
    commitErr,
    proof,      \* Open's results
    openErr,
    sent,       \* the proof handed to Verify
    tamper,     \* the field of sent that differs from proof, or "none"
    verifyErr,  \* Verify(digest, sent)
    \* batch opening at a single point
    polys,      \* polynomials handed to BatchOpenSinglePoint
    digests,    \* digests handed to BatchOpenSinglePoint / FoldProof
    hf,         \* the caller's hash.Hash object
    injected,   \* the transcript failure during the latest call
    batchRes,   \* BatchOpenSinglePoint's results (and the gamma it derived)
    batchRes2,  \* results of a second identical call
    bSent,      \* the batch proof handed to the verifier
    foldRes,    \* FoldProof's results (and the gamma it derived)
    bverifyErr, \* BatchVerifySinglePoint's result
    \* batch verification at several points
    mDigests,   \* digests handed to BatchVerifyMultiPoints
    mProofs,    \* the opening proofs as the provers made them
    mSent,      \* the proofs handed to BatchVerifyMultiPoints
    mTamper,    \* the position whose H differs from mProofs, or 0
    mRandoms,   \* the coefficients the call used (the first is one)
    mErr,       \* BatchVerifyMultiPoints' result
    \* ratio builders
    rNum,       \* numerator list / entries
    rDen,       \* denominator list
    rPerm,      \* permutation handed to BuildRatioCopyConstraint
    rBeta,      \* challenges
    rGamma,
    rDomain,    \* Cardinality of the domain passed, 0 for nil
    rCall,      \* the builder called, or "none"
    rRes,       \* the builder's results
    \* Commit's two-way split, step by step
    sMain,      \* position of the caller's thread
    sGo,        \* position of the goroutine of part 1
    sP1,        \* p1, p2: the partial sums
    sP2,
    \* NewSRS
    nSize,      \* the size and the alpha passed to NewSRS
    nAlpha,
    nErr,       \* NewSRS' error (its SRS is srs)
    \* Open and dividePolyByXminusA, step by step
    dBuf,       \* the storage of _p: domain.Cardinality elements
    dI,         \* the loop index i (1-based), 0 after the last turn
    dC,         \* the carry c
    dLen,       \* the length of the slice returned
    \* BuildRatioCopyConstraint, step by step
    kPhase,     \* "idle", "terms", "prefix", "invert", "done"
    kShards,    \* the ranges of the running parallel.Execute and their progress
    kCoeffs,    \* coeffs
    kT,         \* t
    kGo,        \* index i of the goroutine's loop over coeffs
    kMain,      \* index i of the caller's loop over t
    kClosed,    \* chCoeffs is closed
    kAccess,    \* reads and writes of coeffs and t since the last fork
    \* BatchOpenSinglePoint, step by step
    eMain,      \* position of the caller's thread
    eVals,      \* res.ClaimedValues, Unwritten where no worker has written
    eGamma,     \* gamma
    eSumPc,     \* position of the goroutine of the sum
    eSumI,      \* its loop index i (1-based)
    eSum,       \* sumGammaiTimesEval
    eFoldI,     \* index i of the caller's loop over the polynomials (1-based)
    eGammaN,    \* gammaN
    ePol,       \* sumGammaiTimesPol
    \* putInExpectedFormFromLagrangeRegular
    fData,      \* the data handed over: Lagrange basis, Regular layout
    fForm,      \* expectedForm
    fRes        \* the polynomial after the call

envVars == <<srs, numCpus, point, card>>
openVars == <<poly, digest, commitErr, proof, openErr, sent, tamper, verifyErr>>
batchVars == <<polys, digests, hf, injected, batchRes, batchRes2, bSent, foldRes, bverifyErr>>
multiVars == <<mDigests, mProofs, mSent, mTamper, mRandoms, mErr>>
ratioVars == <<rNum, rDen, rPerm, rBeta, rGamma, rDomain, rCall, rRes>>
splitVars == <<sMain, sGo, sP1, sP2>>
newVars == <<nSize, nAlpha, nErr>>
divVars == <<dBuf, dI, dC, dLen>>
copyVars == <<kPhase, kShards, kCoeffs, kT, kGo, kMain, kClosed, kAccess>>
sumVars == <<eMain, eVals, eGamma, eSumPc, eSumI, eSum, eFoldI, eGammaN, ePol>>
formVars == <<fData, fForm, fRes>>
stepVars == <<splitVars, newVars, divVars, copyVars, sumVars, formVars>>
vars == <<envVars, pc, openVars, batchVars, multiVars, ratioVars, stepVars>>

SRSs == {NewSRS(size, alpha).srs : size \in 2 .. MaxSRS, alpha \in Fr}
CpuCounts == {SplitCpus, SplitCpus + 1}
Cards == {2 ^ k : k \in 0 .. MaxLogCard}
Polys(maxLen) == UNION {[1 .. n -> Fr] : n \in 0 .. maxLen}

InitEnv ==
    /\ srs \in SRSs
    /\ numCpus \in CpuCounts
    /\ point \in Fr
    /\ card \in Cards

OpenIdle ==
    /\ digest = 0
    /\ commitErr = "unset"
    /\ proof = NoProof
    /\ openErr = "unset"
    /\ sent = NoProof
    /\ tamper = "none"
    /\ verifyErr = "unset"

NoBatchRes == [err |-> "unset", proof |-> NoBatchProof, gamma |-> 0]
NoFoldRes == [err |-> "unset", proof |-> NoProof, digest |-> 0, gamma |-> 0]

BatchIdle ==
    /\ injected = "none"
    /\ batchRes = NoBatchRes
    /\ batchRes2 = NoBatchRes
    /\ bSent = NoBatchProof
    /\ foldRes = NoFoldRes
    /\ bverifyErr = "unset"

BatchUnused ==
    /\ polys = << >> /\ digests = << >> /\ hf = hashReset
    /\ BatchIdle

MultiIdle ==
    /\ mTamper = 0
    /\ mRandoms = << >>
    /\ mErr = "unset"

MultiUnused ==
    /\ mDigests = << >> /\ mProofs = << >> /\ mSent = << >>
    /\ MultiIdle

\* a partial sum not written yet
Unwritten == -1

SplitIdle ==
    /\ sMain = "idle" /\ sGo = "idle"
    /\ sP1 = Unwritten /\ sP2 = Unwritten

NewSRSIdle == nSize = 0 /\ nAlpha = 0 /\ nErr = "unset"

DivIdle == dBuf = << >> /\ dI = 0 /\ dC = 0 /\ dLen = 0

CopyIdle ==
    /\ kPhase = "idle" /\ kShards = << >>
    /\ kCoeffs = << >> /\ kT = << >>
    /\ kGo = 0 /\ kMain = 0 /\ kClosed = FALSE
    /\ kAccess = {}

SumIdle ==
    /\ eMain = "idle" /\ eVals = << >> /\ eGamma = 0
    /\ eSumPc = "idle" /\ eSumI = 0 /\ eSum = Unwritten
    /\ eFoldI = 0 /\ eGammaN = 0 /\ ePol = << >>

NoForm == [Basis |-> "unset", Layout |-> "unset"]
NoPolynomial == [coefficients |-> << >>, Basis |-> "unset", Layout |-> "unset"]
FormIdle == fData = << >> /\ fForm = NoForm /\ fRes = NoPolynomial

StepsIdle == SplitIdle /\ NewSRSIdle /\ DivIdle /\ CopyIdle /\ SumIdle /\ FormIdle

RatioIdle ==
    /\ rCall = "none"
    /\ rRes = [err |-> "unset", coefficients |-> << >>]

RatioUnused ==
    /\ rNum = << >> /\ rDen = << >> /\ rPerm = << >>
    /\ rBeta = 0 /\ rGamma = 0 /\ rDomain = 0
    /\ RatioIdle

KzgUnused ==
    /\ StepsIdle
    /\ srs = NoSRS /\ numCpus = SplitCpus /\ point = 0 /\ card = 1
    /\ poly = << >>
    /\ OpenIdle
    /\ BatchUnused
    /\ MultiUnused

Init ==
    /\ InitEnv
    /\ poly \in Polys(MaxLen)
    /\ OpenIdle
    /\ BatchUnused
    /\ MultiUnused
    /\ RatioUnused
    /\ StepsIdle
    /\ pc = "start"

DoCommit ==
    /\ pc = "start"
    /\ LET r == Commit(poly, srs, FALSE, numCpus)
       IN digest' = r.digest /\ commitErr' = r.err
    /\ pc' = "committed"
    /\ UNCHANGED <<stepVars, ratioVars, envVars, batchVars, multiVars, poly, proof, openErr, sent, tamper, verifyErr>>

DoOpen ==
    /\ pc = "committed"
    /\ LET r == Open(poly, point, card, srs, numCpus)
       IN proof' = r.proof /\ openErr' = r.err /\ sent' = r.proof
    /\ pc' = "opened"
    /\ UNCHANGED <<stepVars, ratioVars, envVars, batchVars, multiVars, poly, digest, commitErr, tamper, verifyErr>>

\* a party between prover and verifier replaces one field of the proof
TamperProof(field, v) ==
    /\ pc = "opened"
    /\ openErr = nil
    /\ v # proof[field]
    /\ sent' = [proof EXCEPT ![field] = v]
    /\ tamper' = field
    /\ pc' = "tampered"
    /\ UNCHANGED <<stepVars, ratioVars, envVars, batchVars, multiVars, poly, digest, commitErr, proof, openErr, verifyErr>>

DoVerify ==
    /\ pc \in {"opened", "tampered"}
    /\ openErr = nil
    /\ verifyErr' = Verify(digest, sent, srs)
    /\ pc' = "verified"
    /\ UNCHANGED <<stepVars, ratioVars, envVars, batchVars, multiVars, poly, digest, commitErr, proof, openErr, sent, tamper>>

Next ==
    \/ DoCommit
    \/ DoOpen
    \/ \E v \in Fr : TamperProof("H", v)
    \/ \E v \in Fr : TamperProof("Point", v)
    \/ \E v \in Fr : TamperProof("ClaimedValue", v)
    \/ DoVerify

Spec == Init /\ [][Next]_vars

\* --------------------------------------- batch opening at a single point
\* the polynomials a batch is drawn from: one per length 0 .. MaxLen
PoolPoly(n) == [j \in 1 .. n |-> (j + n) % Q]
PolyPool == {PoolPoly(n) : n \in 0 .. MaxLen}
PolyLists == UNION {[1 .. m -> PolyPool] : m \in 0 .. MaxBatch}

\* the digests of the polynomials, as the prover computes them
DigestsOf(ps) == [i \in 1 .. Len(ps) |-> Commit(ps[i], srs, FALSE, numCpus).digest]

InitBatchInputs ==
    /\ InitEnv
    /\ poly = << >>
    /\ OpenIdle
    /\ polys \in PolyLists
    /\ digests \in {DigestsOf(polys), SubSeq(DigestsOf(polys), 1, Len(polys) - 1)}
    /\ BatchIdle
    /\ MultiUnused
    /\ RatioUnused
    /\ StepsIdle
    /\ pc = "start"

DoBatchOpen(fail) ==
    /\ pc = "start"
    /\ LET r == BatchOpenSinglePoint(polys, digests, point, hf, card, srs, numCpus, fail)
       IN /\ batchRes' = [err |-> r.err, proof |-> r.proof, gamma |-> r.gamma]
          /\ bSent' = r.proof
          /\ hf' = r.hf
    /\ injected' = fail
    /\ pc' = "proved"
    /\ UNCHANGED <<stepVars, ratioVars, envVars, openVars, multiVars, polys, digests, batchRes2, foldRes, bverifyErr>>

\* the same call again, on the hash object as the first call left it
DoBatchOpenAgain ==
    /\ pc = "proved"
    /\ batchRes.err = nil
    /\ LET r == BatchOpenSinglePoint(polys, digests, point, hf, card, srs, numCpus, "none")
       IN /\ batchRes2' = [err |-> r.err, proof |-> r.proof, gamma |-> r.gamma]
          /\ hf' = r.hf
    /\ pc' = "reproved"
    /\ UNCHANGED <<stepVars, ratioVars, envVars, openVars, multiVars, polys, digests, injected, batchRes, bSent, foldRes, bverifyErr>>

\* the claimed values reach the verifier changed
ForgeClaimedValues(cvs) ==
    /\ pc = "proved"
    /\ batchRes.err = nil
    /\ cvs # batchRes.proof.ClaimedValues
    /\ bSent' = [bSent EXCEPT !.ClaimedValues = cvs]
    /\ pc' = "forged"
    /\ UNCHANGED <<stepVars, ratioVars, envVars, openVars, multiVars, polys, digests, hf, injected, batchRes, batchRes2, foldRes, bverifyErr>>

DoFoldProof(fail) ==
    /\ pc \in {"proved", "forged"}
    /\ batchRes.err = nil
    /\ LET r == FoldProof(digests, bSent, hf, fail)
       IN /\ foldRes' = [err |-> r.err, proof |-> r.proof, digest |-> r.digest, gamma |-> r.gamma]
          /\ hf' = r.hf
    /\ injected' = fail
    /\ pc' = "folded"
    /\ UNCHANGED <<stepVars, ratioVars, envVars, openVars, multiVars, polys, digests, batchRes, batchRes2, bSent, bverifyErr>>

DoBatchVerifySinglePoint(fail) ==
    /\ pc \in {"proved", "forged"}
    /\ batchRes.err = nil
    /\ LET r == BatchVerifySinglePoint(digests, bSent, hf, srs, fail)
       IN bverifyErr' = r.err /\ hf' = r.hf
    /\ injected' = fail
    /\ pc' = "bverified"
    /\ UNCHANGED <<stepVars, ratioVars, envVars, openVars, multiVars, polys, digests, batchRes, batchRes2, bSent, foldRes>>

\* proving and verifying with claimed values changed on the way
InitBatch ==
    /\ InitBatchInputs
    /\ hf = hashReset

NextBatch ==
    \/ DoBatchOpen("none")
    \/ \E cvs \in UNION {[1 .. m -> Fr] : m \in 0 .. MaxBatch} :
          Len(cvs) = Len(polys) /\ ForgeClaimedValues(cvs)
    \/ DoBatchVerifySinglePoint("none")

SpecBatch == InitBatch /\ [][NextBatch]_vars

\* the Fiat-Shamir challenge: any state of the caller's hash, any failure
HashStates == {hashReset, <<1>>}

InitFS ==
    /\ InitBatchInputs
    /\ hf \in HashStates

NextFS ==
    \/ \E fail \in FsFailures : DoBatchOpen(fail)
    \/ DoBatchOpenAgain
    \/ \E fail \in FsFailures : DoFoldProof(fail)
    \/ \E fail \in FsFailures : DoBatchVerifySinglePoint(fail)

SpecFS == InitFS /\ [][NextFS]_vars

\* ------------------------------------- batch verification, many points
\* the polynomial opened at position i: lengths 2 .. MaxSRS in turn
MultiPoly(i) == PoolPoly(2 + ((i - 1) % (MaxSRS - 1)))

InitMulti ==
    /\ srs \in {s \in SRSs : Len(s.G1) = MaxSRS}
    /\ numCpus \in CpuCounts
    /\ point = 0
    /\ card = 2 ^ MaxLogCard
    /\ poly = << >>
    /\ OpenIdle
    /\ BatchUnused
    /\ \E m \in 0 .. MaxBatch : \E pts \in [1 .. m -> Fr] :
          LET opened == [i \in 1 .. m |-> Open(MultiPoly(i), pts[i], card, srs, numCpus)]
          IN /\ \A i \in 1 .. m : opened[i].err = nil
             /\ mDigests = [i \in 1 .. m |-> Commit(MultiPoly(i), srs, FALSE, numCpus).digest]
             /\ mProofs = [i \in 1 .. m |-> opened[i].proof]
             /\ mSent = [i \in 1 .. m |-> opened[i].proof]
    /\ MultiIdle
    /\ RatioUnused
    /\ StepsIdle
    /\ pc = "start"

\* the H of the proof at position k reaches the verifier changed
TamperBatchH(k, h) ==
    /\ pc = "start"
    /\ k \in 1 .. Len(mProofs)
    /\ h # mProofs[k].H
    /\ mSent' = [mSent EXCEPT ![k].H = h]
    /\ mTamper' = k
    /\ pc' = "mtampered"
    /\ UNCHANGED <<stepVars, ratioVars, envVars, openVars, batchVars, mDigests, mProofs, mRandoms, mErr>>

DoBatchVerifyMultiPoints(drawn) ==
    /\ pc \in {"start", "mtampered"}
    /\ Len(drawn) = Len(mDigests)
    /\ drawn[1] = 1
    /\ mErr' = BatchVerifyMultiPoints(mDigests, mSent, srs, drawn)
    /\ mRandoms' = drawn
    /\ pc' = "mverified"
    /\ UNCHANGED <<stepVars, ratioVars, envVars, openVars, batchVars, mDigests, mProofs, mSent, mTamper>>

\* a call with no pairs: nothing is drawn
DoBatchVerifyNoPairs ==
    /\ pc = "start"
    /\ Len(mDigests) = 0
    /\ mErr' = BatchVerifyMultiPoints(mDigests, mSent, srs, << >>)
    /\ pc' = "mverified"
    /\ UNCHANGED <<stepVars, ratioVars, envVars, openVars, batchVars, mDigests, mProofs, mSent, mTamper, mRandoms>>

NextMulti ==
    \/ \E k \in 1 .. MaxBatch, h \in G1 : TamperBatchH(k, h)
    \/ \E drawn \in UNION {[1 .. m -> Fr] : m \in 1 .. MaxBatch} : DoBatchVerifyMultiPoints(drawn)
    \/ DoBatchVerifyNoPairs

SpecMulti == InitMulti /\ [][NextMulti]_vars

\* ------------------------------------------- Commit, split path by steps
\* Commit(poly, srs) without a CPUSemaphore: validation and the choice of
\* path; on more than SplitCpus CPUs the goroutine of part 1 is started
CommitEnter ==
    /\ pc = "start"
    /\ IF Len(poly) = 0 \/ Len(poly) > Len(srs.G1) \/ numCpus <= SplitCpus
       THEN /\ LET r == Commit(poly, srs, FALSE, numCpus)
               IN digest' = r.digest /\ commitErr' = r.err
            /\ pc' = "committed"
            /\ UNCHANGED splitVars
       ELSE /\ sMain' = "forked" /\ sGo' = "running"
            /\ pc' = "splitting"
            /\ UNCHANGED <<digest, commitErr, sP1, sP2>>
    /\ UNCHANGED <<ratioVars, envVars, batchVars, multiVars,
                   poly, proof, openErr, sent, tamper, verifyErr, newVars, divVars, copyVars, sumVars, formVars>>

\* the goroutine: p1.MultiExp(srs.G1[:m], p[:m]); close(chPart1)
CommitGoPart1 ==
    /\ sGo = "running"
    /\ sP1' = CommitPart1(poly, srs)
    /\ sGo' = "closed"
    /\ UNCHANGED <<sumVars, formVars, copyVars, divVars, newVars, ratioVars, envVars, batchVars, multiVars, openVars, pc, sMain, sP2>>

\* the caller: p2.MultiExp(srs.G1[m:len(p)], p[m:])
CommitMainPart2 ==
    /\ sMain = "forked"
    /\ sP2' = CommitPart2(poly, srs)
    /\ sMain' = "part2"
    /\ UNCHANGED <<sumVars, formVars, copyVars, divVars, newVars, ratioVars, envVars, batchVars, multiVars, openVars, pc, sGo, sP1>>

\* the caller: <-chPart1
CommitMainWait ==
    /\ sMain = "part2"
    /\ sGo = "closed"
    /\ sMain' = "waited"
    /\ UNCHANGED <<sumVars, formVars, copyVars, divVars, newVars, ratioVars, envVars, batchVars, multiVars, openVars, pc, sGo, sP1, sP2>>

\* the caller: p1.AddAssign(&p2); res.FromJacobian(&p1)
CommitMainCombine ==
    /\ sMain = "waited"
    /\ digest' = G1Add(sP1, sP2)
    /\ commitErr' = nil
    /\ sMain' = "done"
    /\ pc' = "committed"
    /\ UNCHANGED <<ratioVars, envVars, batchVars, multiVars,
                   poly, proof, openErr, sent, tamper, verifyErr, sGo, sP1, sP2, newVars, divVars, copyVars, sumVars, formVars>>

InitSplit ==
    /\ srs \in SRSs
    /\ numCpus \in CpuCounts
    /\ point = 0
    /\ card = 1
    /\ poly \in Polys(MaxLen)
    /\ OpenIdle
    /\ BatchUnused
    /\ MultiUnused
    /\ RatioUnused
    /\ StepsIdle
    /\ pc = "start"

NextSplit ==
    \/ CommitEnter
    \/ CommitGoPart1
    \/ CommitMainPart2
    \/ CommitMainWait
    \/ CommitMainCombine

SpecSplit == InitSplit /\ [][NextSplit]_vars

\* ------------------------------------------------------------- NewSRS
\* the big integers passed for alpha: reduced and unreduced
BigAlphas == 0 .. (4 * Q - 1)

DoNewSRS ==
    /\ pc = "start"
    /\ LET r == NewSRS(nSize, nAlpha)
       IN srs' = r.srs /\ nErr' = r.err
    /\ pc' = "created"
    /\ UNCHANGED <<numCpus, point, card, openVars, batchVars, multiVars, ratioVars,
                   splitVars, divVars, copyVars, sumVars, formVars, nSize, nAlpha>>

InitNewSRS ==
    /\ srs = NoSRS
    /\ numCpus = SplitCpus /\ point = 0 /\ card = 1
    /\ poly = << >>
    /\ OpenIdle
    /\ BatchUnused
    /\ MultiUnused
    /\ RatioUnused
    /\ SplitIdle /\ DivIdle /\ CopyIdle /\ SumIdle /\ FormIdle
    /\ nSize \in 0 .. MaxSRS
    /\ nAlpha \in BigAlphas
    /\ nErr = "unset"
    /\ pc = "start"

NextNewSRS == DoNewSRS

SpecNewSRS == InitNewSRS /\ [][NextNewSRS]_vars

\* ------------------------------------------------------- Open by steps
\* Open up to the copy of p into _p (len(p) elements, capacity
\* domain.Cardinality, zero beyond len(p))
OpenEnter ==
    /\ pc = "start"
    /\ IF Len(poly) = 0 \/ Len(poly) > Len(srs.G1)
       THEN /\ openErr' = ErrInvalidPolynomialSize /\ pc' = "opened"
            /\ UNCHANGED <<proof, dBuf>>
       ELSE IF Len(poly) > card
       THEN /\ openErr' = ErrInvalidDomain /\ pc' = "opened"
            /\ UNCHANGED <<proof, dBuf>>
       ELSE /\ proof' = [H |-> 0, Point |-> point, ClaimedValue |-> Eval(poly, point)]
            /\ dBuf' = [i \in 1 .. card |-> IF i <= Len(poly) THEN poly[i] ELSE 0]
            /\ pc' = "copied"
            /\ UNCHANGED openErr
    /\ UNCHANGED <<envVars, batchVars, multiVars, ratioVars, splitVars, newVars, copyVars, sumVars, formVars,
                   poly, digest, commitErr, sent, tamper, verifyErr, dI, dC, dLen>>

\* f = f[:d.Cardinality]; f[0].Sub(&f[0], &fa); the loop starts at len(f) - 1
DivSubtract ==
    /\ pc = "copied"
    /\ dBuf' = [dBuf EXCEPT ![1] = FrSub(dBuf[1], proof.ClaimedValue)]
    /\ dI' = card
    /\ dC' = 0
    /\ pc' = "dividing"
    /\ UNCHANGED <<envVars, openVars, batchVars, multiVars, ratioVars, splitVars, newVars, copyVars, sumVars, formVars, dLen>>

DivStep ==
    /\ pc = "dividing"
    /\ dI >= 1
    /\ LET st == divStep(dBuf, dC, proof.Point, dI)
       IN dBuf' = st.f /\ dC' = st.c
    /\ dI' = dI - 1
    /\ UNCHANGED <<envVars, pc, openVars, batchVars, multiVars, ratioVars, splitVars, newVars, copyVars, sumVars, formVars, dLen>>

\* return f[:degree]
DivReturn ==
    /\ pc = "dividing"
    /\ dI = 0
    /\ dLen' = Len(poly) - 1
    /\ pc' = "divided"
    /\ UNCHANGED <<envVars, openVars, batchVars, multiVars, ratioVars, splitVars, newVars, copyVars, sumVars, formVars,
                   dBuf, dI, dC>>

\* commit to H
OpenCommitH ==
    /\ pc = "divided"
    /\ LET hCommit == Commit(SubSeq(dBuf, 1, dLen), srs, FALSE, numCpus)
       IN IF hCommit.err # nil
          THEN proof' = NoProof /\ openErr' = hCommit.err
          ELSE proof' = [proof EXCEPT !.H = hCommit.digest] /\ openErr' = nil
    /\ pc' = "opened"
    /\ UNCHANGED <<envVars, batchVars, multiVars, ratioVars, stepVars,
                   poly, digest, commitErr, sent, tamper, verifyErr>>

InitDivide ==
    /\ srs \in {NewSRS(size, 2).srs : size \in 2 .. MaxSRS}
    /\ numCpus = SplitCpus
    /\ point \in Fr
    /\ card \in Cards
    /\ poly \in Polys(MaxLen)
    /\ OpenIdle
    /\ BatchUnused
    /\ MultiUnused
    /\ RatioUnused
    /\ StepsIdle
    /\ pc = "start"

NextDivide ==
    \/ OpenEnter
    \/ DivSubtract
    \/ DivStep
    \/ DivReturn
    \/ OpenCommitH

SpecDivide == InitDivide /\ [][NextDivide]_vars

\* ---------------------------------------------------------- ratio builders
\* polynomials in Lagrange basis: the coefficients hold the evaluations on
\* 1, w, .., w^(n-1), in this order (Regular) or bit-reversed (BitReverse)
Store(evals, layout) ==
    LET n == Len(evals)
    IN [coefficients |->
            [i \in 1 .. n |->
                IF layout = BitReverse
                THEN evals[ReverseBits(i - 1, TrailingZeros(n)) + 1]
                ELSE evals[i]],
        Layout |-> layout]

\* the evaluation of p at w^j
EvalAt(p, j) == p.coefficients[StepIndex(p, j, Len(p.coefficients)) + 1]

\* the evaluations the input polynomials take, and the challenges
RatioVals == {0, 1}
Betas == {0, 2}
\* (number of polynomials, size) of the well-formed inputs
RatioShapes ==
    {sh \in (1 .. MaxPolys) \X {2 ^ k : k \in 0 .. MaxLogN} : sh[1] * sh[2] <= MaxEvals}
LayoutPatterns == {"regular", "bitreverse", "mixed"}
LayoutOf(pattern, k, flip) ==
    IF pattern = "regular" THEN Regular
    ELSE IF pattern = "bitreverse" THEN BitReverse
    ELSE IF (k % 2 = 1) = flip THEN BitReverse ELSE Regular

Identity(len) == [x \in 1 .. len |-> x - 1]
Rotation(len, r) == [x \in 1 .. len |-> (x - 1 + r) % len]
Reversal(len) == [x \in 1 .. len |-> len - x]

DoBuildRatioShuffledVectors ==
    /\ pc = "start"
    /\ rRes' = BuildRatioShuffledVectors(rNum, rDen, rBeta, rDomain)
    /\ rCall' = "shuffled"
    /\ pc' = "built"
    /\ UNCHANGED <<stepVars, envVars, openVars, batchVars, multiVars,
                   rNum, rDen, rPerm, rBeta, rGamma, rDomain>>

DoBuildRatioCopyConstraint ==
    /\ pc = "start"
    /\ rRes' = BuildRatioCopyConstraint(rNum, rPerm, rBeta, rGamma, rDomain)
    /\ rCall' = "copy"
    /\ pc' = "built"
    /\ UNCHANGED <<stepVars, envVars, openVars, batchVars, multiVars,
                   rNum, rDen, rPerm, rBeta, rGamma, rDomain>>

\* shuffled vectors: the denominators hold the numerators' evaluations, moved
InitShuffle ==
    /\ KzgUnused
    /\ \E sh \in RatioShapes :
          LET m == sh[1]
              n == sh[2]
          IN \E e \in [1 .. m -> [1 .. n -> RatioVals]] :
             \E r \in 0 .. (m * n - 1), back \in BOOLEAN, lp \in LayoutPatterns :
                LET move == IF back
                            THEN [x \in 1 .. (m * n) |->
                                     Reversal(m * n)[Rotation(m * n, r)[x] + 1]]
                            ELSE Rotation(m * n, r)
                    flat(x) == e[(x \div n) + 1][(x % n) + 1]
                    moved(k) == [j \in 1 .. n |-> flat(move[(k - 1) * n + j])]
                IN /\ rNum = [k \in 1 .. m |-> Store(e[k], LayoutOf(lp, k, FALSE))]
                   /\ rDen = [k \in 1 .. m |-> Store(moved(k), LayoutOf(lp, k, TRUE))]
    /\ rPerm = << >>
    /\ rBeta \in Betas
    /\ rGamma = 0
    /\ rDomain = 0
    /\ RatioIdle
    /\ pc = "start"

NextShuffle == DoBuildRatioShuffledVectors

SpecShuffle == InitShuffle /\ [][NextShuffle]_vars

\* copy constraint: entries with the identity or another permutation
InitCopy ==
    /\ KzgUnused
    /\ \E sh \in RatioShapes :
          LET m == sh[1]
              n == sh[2]
          IN \E e \in [1 .. m -> [1 .. n -> RatioVals]] : \E lp \in LayoutPatterns :
               /\ rNum = [k \in 1 .. m |-> Store(e[k], LayoutOf(lp, k, FALSE))]
               /\ rPerm \in {Identity(m * n), Rotation(m * n, 1)}
    /\ rDen = << >>
    /\ rBeta \in {1, QI - 1}
    /\ rGamma \in {0, 1}
    /\ rDomain = 0
    /\ RatioIdle
    /\ pc = "start"

NextCopy == DoBuildRatioCopyConstraint

SpecCopy == InitCopy /\ [][NextCopy]_vars

\* any sizes: lists of up to MaxPolys + 1 polynomials of any length
SizedPoly(len) == [coefficients |-> [j \in 1 .. len |-> j % QI], Layout |-> Regular]
SizedLists ==
    UNION {[1 .. m -> {SizedPoly(len) : len \in 0 .. 2 ^ MaxLogN}] : m \in 0 .. (MaxPolys + 1)}
FirstLen(ps) == IF Len(ps) = 0 THEN 0 ELSE Len(ps[1].coefficients)

InitSizes ==
    /\ KzgUnused
    /\ rNum \in SizedLists
    /\ rDen \in SizedLists
    /\ rPerm = Identity(Len(rNum) * FirstLen(rNum))
    /\ rBeta = QI - 1
    /\ rGamma = 1
    /\ rDomain \in {0, FirstLen(rNum), 2 * FirstLen(rNum)}
    /\ RatioIdle
    /\ pc = "start"

NextSizes ==
    \/ DoBuildRatioShuffledVectors
    \/ DoBuildRatioCopyConstraint

SpecSizes == InitSizes /\ [][NextSizes]_vars

\* --------------------------------------- BuildRatioCopyConstraint by steps
\* what stops the call before coeffs and t exist: an error, Panic, or nil
CopyValidation(entries, permutation, domainCard) ==
    LET cs == checkSize(<<entries>>)
    IN IF cs # nil THEN cs
       ELSE LET n == Len(entries[1].coefficients)
                bd == buildDomain(n, domainCard)
                nb == Len(entries)
            IN IF bd.err # nil THEN bd.err
               ELSE IF n = 0 \/ getSupportIdentityPermutation(nb, n).err # nil THEN Panic
               ELSE IF ReadsOutOfRange(entries, n) THEN Panic
               ELSE IF \E j \in 0 .. (nb - 1) : \E i \in 0 .. (n - 2) :
                          \/ i + j * n >= Len(permutation)
                          \/ permutation[i + j * n + 1] \notin 0 .. (nb * n - 1)
               THEN Panic
               ELSE nil

\* parallel.Execute(nbIterations, work): the ranges [start, end) handed to
\* the workers, cut at the given places
RECURSIVE SortedCuts(_)
SortedCuts(cuts) ==
    IF cuts = {} THEN << >>
    ELSE LET lo == CHOOSE x \in cuts : \A y \in cuts : x <= y
         IN <<lo>> \o SortedCuts(cuts \ {lo})
Ranges(cuts, nbIterations) ==
    LET b == <<0>> \o SortedCuts(cuts) \o <<nbIterations>>
    IN [w \in 1 .. (Len(b) - 1) |->
           [start |-> b[w], end |-> b[w + 1], next |-> b[w], tInv |-> << >>]]
Executions(nbIterations) ==
    {Ranges(cuts, nbIterations) : cuts \in SUBSET (1 .. (nbIterations - 1))}

\* the range of the inversion worker taken as handed over, without start++, end++
InvertRangeUnshifted(sh) == [start |-> sh.start, end |-> sh.end]
\* start++; end++
InvertRange(sh) == [start |-> sh.start + 1, end |-> sh.end + 1]

CopyN0 == Len(rNum[1].coefficients)
CopyIds == getSupportIdentityPermutation(Len(rNum), CopyN0).res
CopyB(i) == CopyTerm(rNum, CopyIds, Identity(Len(rNum) * CopyN0), rBeta, rGamma, i, CopyN0)
CopyD(i) == CopyTerm(rNum, CopyIds, rPerm, rBeta, rGamma, i, CopyN0)

CopyEnter ==
    /\ pc = "start"
    /\ LET v == CopyValidation(rNum, rPerm, rDomain)
       IN IF v # nil
          THEN /\ rRes' = [err |-> v, coefficients |-> NoRatio]
               /\ rCall' = "copy"
               /\ pc' = "built"
               /\ UNCHANGED copyVars
          ELSE /\ kCoeffs' = [i \in 1 .. CopyN0 |-> IF i = 1 THEN 1 ELSE 0]
               /\ kT' = [i \in 1 .. CopyN0 |-> IF i = 1 THEN 1 ELSE 0]
               /\ kShards' \in Executions(CopyN0 - 1)
               /\ kPhase' = "terms"
               /\ pc' = "building"
               /\ UNCHANGED <<rRes, rCall, kGo, kMain, kClosed, kAccess>>
    /\ UNCHANGED <<envVars, openVars, batchVars, multiVars, splitVars, newVars, divVars, sumVars, formVars,
                   rNum, rDen, rPerm, rBeta, rGamma, rDomain>>

\* a worker of the first parallel.Execute: coeffs[i+1].Set(&b); t[i+1].Set(&d)
CopyTermStep(w) ==
    /\ kPhase = "terms"
    /\ w \in 1 .. Len(kShards)
    /\ kShards[w].next < kShards[w].end
    /\ LET i == kShards[w].next
       IN /\ kCoeffs' = [kCoeffs EXCEPT ![i + 2] = CopyB(i)]
          /\ kT' = [kT EXCEPT ![i + 2] = CopyD(i)]
          /\ kAccess' = kAccess \cup {<<w, "coeffs", i + 1, "w">>, <<w, "t", i + 1, "w">>}
    /\ kShards' = [kShards EXCEPT ![w].next = @ + 1]
    /\ UNCHANGED <<envVars, pc, openVars, batchVars, multiVars, ratioVars,
                   splitVars, newVars, divVars, sumVars, formVars, kPhase, kGo, kMain, kClosed>>

\* the first parallel.Execute returns; the goroutine of coeffs is started
CopyTermsJoin ==
    /\ kPhase = "terms"
    /\ \A w \in 1 .. Len(kShards) : kShards[w].next = kShards[w].end
    /\ kPhase' = "prefix"
    /\ kShards' = << >>
    /\ kGo' = 2 /\ kMain' = 2 /\ kClosed' = FALSE
    /\ kAccess' = {}
    /\ UNCHANGED <<envVars, pc, openVars, batchVars, multiVars, ratioVars,
                   splitVars, newVars, divVars, sumVars, formVars, kCoeffs, kT>>

\* the goroutine: coeffs[i].Mul(&coeffs[i], &coeffs[i-1])
CopyPrefixGoStep ==
    /\ kPhase = "prefix"
    /\ kGo < CopyN0
    /\ kCoeffs' = [kCoeffs EXCEPT ![kGo + 1] = IMul(kCoeffs[kGo + 1], kCoeffs[kGo])]
    /\ kAccess' = kAccess \cup {<<"go", "coeffs", kGo, "w">>, <<"go", "coeffs", kGo - 1, "r">>}
    /\ kGo' = kGo + 1
    /\ UNCHANGED <<envVars, pc, openVars, batchVars, multiVars, ratioVars,
                   splitVars, newVars, divVars, sumVars, formVars, kPhase, kShards, kT, kMain, kClosed>>

\* the goroutine: close(chCoeffs)
CopyPrefixGoClose ==
    /\ kPhase = "prefix"
    /\ kGo >= CopyN0
    /\ ~kClosed
    /\ kClosed' = TRUE
    /\ UNCHANGED <<envVars, pc, openVars, batchVars, multiVars, ratioVars,
                   splitVars, newVars, divVars, sumVars, formVars, kPhase, kShards, kCoeffs, kT, kGo, kMain, kAccess>>

\* the caller: t[i].Mul(&t[i], &t[i-1])
CopyPrefixMainStep ==
    /\ kPhase = "prefix"
    /\ kMain < CopyN0
    /\ kT' = [kT EXCEPT ![kMain + 1] = IMul(kT[kMain + 1], kT[kMain])]
    /\ kAccess' = kAccess \cup {<<"main", "t", kMain, "w">>, <<"main", "t", kMain - 1, "r">>}
    /\ kMain' = kMain + 1
    /\ UNCHANGED <<envVars, pc, openVars, batchVars, multiVars, ratioVars,
                   splitVars, newVars, divVars, sumVars, formVars, kPhase, kShards, kCoeffs, kGo, kClosed>>

\* the caller: <-chCoeffs, then the second parallel.Execute starts
CopyPrefixWait ==
    /\ kPhase = "prefix"
    /\ kMain >= CopyN0
    /\ kClosed
    /\ kShards' \in Executions(CopyN0 - 1)
    /\ kPhase' = "invert"
    /\ kAccess' = {}
    /\ UNCHANGED <<envVars, pc, openVars, batchVars, multiVars, ratioVars,
                   splitVars, newVars, divVars, sumVars, formVars, kCoeffs, kT, kGo, kMain, kClosed>>

\* a worker of the second parallel.Execute: tInv := fr.BatchInvert(t[start:end])
CopyInvertBatch(w) ==
    /\ kPhase = "invert"
    /\ w \in 1 .. Len(kShards)
    /\ kShards[w].tInv = << >>
    /\ LET r == InvertRange(kShards[w])
       IN /\ kShards' = [kShards EXCEPT ![w].tInv = BatchInvert(SubSeq(kT, r.start + 1, r.end)),
                                        ![w].next = r.start]
          /\ kAccess' = kAccess \cup {<<w, "t", i, "r">> : i \in r.start .. (r.end - 1)}
    /\ UNCHANGED <<envVars, pc, openVars, batchVars, multiVars, ratioVars,
                   splitVars, newVars, divVars, sumVars, formVars, kPhase, kCoeffs, kT, kGo, kMain, kClosed>>

\* the same worker: coeffs[i].Mul(&coeffs[i], &tInv[i-start])
CopyInvertMul(w) ==
    /\ kPhase = "invert"
    /\ w \in 1 .. Len(kShards)
    /\ kShards[w].tInv # << >>
    /\ LET r == InvertRange(kShards[w])
           i == kShards[w].next
       IN /\ i < r.end
          /\ kCoeffs' = [kCoeffs EXCEPT ![i + 1] = IMul(kCoeffs[i + 1], kShards[w].tInv[i - r.start + 1])]
          /\ kAccess' = kAccess \cup {<<w, "coeffs", i, "w">>}
    /\ kShards' = [kShards EXCEPT ![w].next = @ + 1]
    /\ UNCHANGED <<envVars, pc, openVars, batchVars, multiVars, ratioVars,
                   splitVars, newVars, divVars, sumVars, formVars, kPhase, kT, kGo, kMain, kClosed>>

\* the second parallel.Execute returns: the result, Lagrange basis, Regular
CopyInvertJoin ==
    /\ kPhase = "invert"
    /\ \A w \in 1 .. Len(kShards) :
          kShards[w].tInv # << >> /\ kShards[w].next = InvertRange(kShards[w]).end
    /\ rRes' = [err |-> nil, coefficients |-> kCoeffs]
    /\ rCall' = "copy"
    /\ kPhase' = "done"
    /\ pc' = "built"
    /\ UNCHANGED <<envVars, openVars, batchVars, multiVars, splitVars, newVars, divVars, sumVars, formVars,
                   rNum, rDen, rPerm, rBeta, rGamma, rDomain,
                   kShards, kCoeffs, kT, kGo, kMain, kClosed, kAccess>>

\* entries of every shape, one polynomial per size and position
PoolEntry(k, n) == [j \in 1 .. n |-> (3 * k + j * j) % QI]

InitCopySteps ==
    /\ KzgUnused
    /\ \E sh \in RatioShapes : \E lp \in LayoutPatterns :
          /\ rNum = [k \in 1 .. sh[1] |-> Store(PoolEntry(k, sh[2]), LayoutOf(lp, k, FALSE))]
          /\ rPerm \in {Identity(sh[1] * sh[2]), Rotation(sh[1] * sh[2], 1),
                        Reversal(sh[1] * sh[2])}
    /\ rDen = << >>
    /\ rBeta \in {1, 2}
    /\ rGamma \in {0, 1}
    /\ rDomain = 0
    /\ RatioIdle
    /\ pc = "start"

NextCopySteps ==
    \/ CopyEnter
    \/ \E w \in 1 .. (2 ^ MaxLogN) : CopyTermStep(w)
    \/ CopyTermsJoin
    \/ CopyPrefixGoStep
    \/ CopyPrefixGoClose
    \/ CopyPrefixMainStep
    \/ CopyPrefixWait
    \/ \E w \in 1 .. (2 ^ MaxLogN) : CopyInvertBatch(w)
    \/ \E w \in 1 .. (2 ^ MaxLogN) : CopyInvertMul(w)
    \/ CopyInvertJoin

SpecCopySteps == InitCopySteps /\ [][NextCopySteps]_vars

\* ------------------------------------------- BatchOpenSinglePoint by steps
\* one turn of the sum without the factor gamma
sumStepDropsGamma(acc, gamma, v) == FrAdd(acc, v)
\* sumGammaiTimesEval.Mul(&sumGammaiTimesEval, &gamma).Add(.., &res.ClaimedValues[i])
sumStep(acc, gamma, v) == FrAdd(FrMul(acc, gamma), v)

OthersThanBatch ==
    <<envVars, openVars, multiVars, ratioVars, splitVars, newVars, divVars, copyVars, formVars>>

\* the checks, then one goroutine per polynomial is started
BatchEnter ==
    /\ pc = "start"
    /\ LET sizes == checkPolys(polys, srs, card, 1)
           stop(e) == /\ batchRes' = [err |-> e, proof |-> NoBatchProof, gamma |-> 0]
                      /\ pc' = "proved"
                      /\ UNCHANGED <<eMain, eVals>>
       IN IF Len(digests) # Len(polys) THEN stop(ErrInvalidNbDigests)
          ELSE IF sizes # nil THEN stop(sizes)
          ELSE /\ eVals' = [i \in 1 .. Len(polys) |-> Unwritten]
               /\ eMain' = "derive"
               /\ pc' = "proving"
               /\ UNCHANGED batchRes
    /\ UNCHANGED <<OthersThanBatch, polys, digests, hf, injected, batchRes2, bSent, foldRes,
                   bverifyErr, eGamma, eSumPc, eSumI, eSum, eFoldI, eGammaN, ePol>>

\* go func(at): res.ClaimedValues[at] = polynomials[at].Eval(point); wg.Done()
BatchEvalWorker(at) ==
    /\ at \in 1 .. Len(eVals)
    /\ eVals[at] = Unwritten
    /\ eVals' = [eVals EXCEPT ![at] = Eval(polys[at], point)]
    /\ UNCHANGED <<OthersThanBatch, pc, batchVars,
                   eMain, eGamma, eSumPc, eSumI, eSum, eFoldI, eGammaN, ePol>>

\* the caller: deriveGamma; on success the goroutine of the sum is started and
\* sumGammaiTimesPol is made and filled with polynomials[0]
BatchMainDerive(fail) ==
    /\ eMain = "derive"
    /\ LET dg == deriveGamma(point, digests, hf, fail)
       IN /\ hf' = dg.hf
          /\ injected' = fail
          /\ IF dg.err # nil
             THEN /\ batchRes' = [err |-> dg.err, proof |-> NoBatchProof, gamma |-> 0]
                  /\ eMain' = "returned" /\ pc' = "proved"
                  /\ UNCHANGED <<eGamma, eSumPc, eFoldI, eGammaN, ePol>>
             ELSE IF Len(polys) = 0
             THEN /\ batchRes' = [err |-> Panic, proof |-> NoBatchProof, gamma |-> 0]
                  /\ eMain' = "returned" /\ pc' = "proved"
                  /\ UNCHANGED <<eGamma, eSumPc, eFoldI, eGammaN, ePol>>
             ELSE /\ eGamma' = dg.gamma
                  /\ eSumPc' = "waiting"
                  /\ ePol' = [j \in 1 .. largestPolyOf(polys) |->
                                 IF j <= Len(polys[1]) THEN polys[1][j] ELSE 0]
                  /\ eGammaN' = dg.gamma
                  /\ eFoldI' = 2
                  /\ eMain' = "fold"
                  /\ UNCHANGED <<batchRes, pc>>
    /\ UNCHANGED <<OthersThanBatch, polys, digests, batchRes2, bSent, foldRes, bverifyErr,
                   eVals, eSumI, eSum>>

\* the goroutine of the sum: wg.Wait(); sumGammaiTimesEval = res.ClaimedValues[nbDigests-1]
BatchSumStart ==
    /\ eSumPc = "waiting"
    /\ \A i \in 1 .. Len(eVals) : eVals[i] # Unwritten
    /\ eSum' = eVals[Len(digests)]
    /\ eSumI' = Len(digests) - 1
    /\ eSumPc' = "running"
    /\ UNCHANGED <<OthersThanBatch, pc, batchVars, eMain, eVals, eGamma, eFoldI, eGammaN, ePol>>

BatchSumStep ==
    /\ eSumPc = "running"
    /\ eSumI >= 1
    /\ eSum' = sumStep(eSum, eGamma, eVals[eSumI])
    /\ eSumI' = eSumI - 1
    /\ UNCHANGED <<OthersThanBatch, pc, batchVars, eMain, eVals, eGamma, eSumPc, eFoldI, eGammaN, ePol>>

\* close(chSumGammai)
BatchSumClose ==
    /\ eSumPc = "running"
    /\ eSumI = 0
    /\ eSumPc' = "closed"
    /\ UNCHANGED <<OthersThanBatch, pc, batchVars, eMain, eVals, eGamma, eSumI, eSum, eFoldI, eGammaN, ePol>>

\* the caller: sumGammaiTimesPol += gammaN * polynomials[i]; gammaN *= gamma
BatchMainFold ==
    /\ eMain = "fold"
    /\ eFoldI <= Len(polys)
    /\ ePol' = [j \in 1 .. Len(ePol) |->
                   IF j <= Len(polys[eFoldI])
                   THEN FrAdd(ePol[j], FrMul(polys[eFoldI][j], eGammaN))
                   ELSE ePol[j]]
    /\ eGammaN' = FrMul(eGammaN, eGamma)
    /\ eFoldI' = eFoldI + 1
    /\ UNCHANGED <<OthersThanBatch, pc, batchVars, eMain, eVals, eGamma, eSumPc, eSumI, eSum>>

\* the caller: <-chSumGammai
BatchMainWait ==
    /\ eMain = "fold"
    /\ eFoldI > Len(polys)
    /\ eSumPc = "closed"
    /\ eMain' = "divide"
    /\ UNCHANGED <<OthersThanBatch, pc, batchVars, eVals, eGamma, eSumPc, eSumI, eSum, eFoldI, eGammaN, ePol>>

\* the caller: h := dividePolyByXminusA(..); res.H, err = Commit(h, srs)
BatchMainDivide ==
    /\ eMain = "divide"
    /\ LET h == dividePolyByXminusA(card, ePol, eSum, point)
           hCommit == Commit(h, srs, FALSE, numCpus)
       IN /\ batchRes' =
                IF hCommit.err # nil
                THEN [err |-> hCommit.err, proof |-> NoBatchProof, gamma |-> 0]
                ELSE [err |-> nil,
                      proof |-> [H |-> hCommit.digest, Point |-> point, ClaimedValues |-> eVals],
                      gamma |-> eGamma]
          /\ bSent' = IF hCommit.err # nil THEN NoBatchProof
                      ELSE [H |-> hCommit.digest, Point |-> point, ClaimedValues |-> eVals]
    /\ eMain' = "returned"
    /\ pc' = "proved"
    /\ UNCHANGED <<OthersThanBatch, polys, digests, hf, injected, batchRes2, foldRes, bverifyErr,
                   eVals, eGamma, eSumPc, eSumI, eSum, eFoldI, eGammaN, ePol>>

InitBatchSteps ==
    /\ srs \in SRSs
    /\ numCpus = SplitCpus
    /\ point \in Fr
    /\ card = 2 ^ MaxLogCard
    /\ poly = << >>
    /\ OpenIdle
    /\ polys \in PolyLists
    /\ digests \in {DigestsOf(polys), SubSeq(DigestsOf(polys), 1, Len(polys) - 1)}
    /\ hf = hashReset
    /\ BatchIdle
    /\ MultiUnused
    /\ RatioUnused
    /\ StepsIdle
    /\ pc = "start"

NextBatchSteps ==
    \/ BatchEnter
    \/ \E at \in 1 .. MaxBatch : BatchEvalWorker(at)
    \/ \E fail \in {"none", "challenge"} : BatchMainDerive(fail)
    \/ BatchSumStart
    \/ BatchSumStep
    \/ BatchSumClose
    \/ BatchMainFold
    \/ BatchMainWait
    \/ BatchMainDivide

SpecBatchSteps == InitBatchSteps /\ [][NextBatchSteps]_vars

\* ------------------------------------ putInExpectedFormFromLagrangeRegular
Forms == [Basis : {Canonical, Lagrange, LagrangeCoset}, Layout : {Regular, BitReverse}]
FormVals == {0, 1, 5}

DoPutInExpectedForm ==
    /\ pc = "start"
    /\ fRes' = putInExpectedFormFromLagrangeRegular(fData, fForm)
    /\ pc' = "formed"
    /\ UNCHANGED <<envVars, openVars, batchVars, multiVars, ratioVars,
                   splitVars, newVars, divVars, copyVars, sumVars, fData, fForm>>

InitForm ==
    /\ srs = NoSRS /\ numCpus = SplitCpus /\ point = 0 /\ card = 1
    /\ poly = << >>
    /\ OpenIdle
    /\ BatchUnused
    /\ MultiUnused
    /\ RatioUnused
    /\ SplitIdle /\ NewSRSIdle /\ DivIdle /\ CopyIdle /\ SumIdle
    /\ \E k \in 0 .. MaxLogN : fData \in [1 .. (2 ^ k) -> FormVals]
    /\ fForm \in Forms
    /\ fRes = NoPolynomial
    /\ pc = "start"

NextForm == DoPutInExpectedForm

SpecForm == InitForm /\ [][NextForm]_vars

\* ------------------------------------------------------- single opening
Opened == pc \in {"opened", "tampered", "verified"}
SizeOK == Len(poly) >= 1 /\ Len(poly) <= Len(srs.G1)

\* C1: for 1 <= len(p) <= SRS length and a domain of cardinality >= len(p),
\* Open returns a proof without error and Verify of Commit(p) with that proof
\* succeeds; constant polynomials included.
C1_OpenThenVerifySucceeds ==
    (Opened /\ SizeOK /\ card >= Len(poly)) =>
        /\ commitErr = nil
        /\ openErr = nil
        /\ (pc = "verified" /\ tamper = "none") => verifyErr = nil

\* the same statement for polynomials of length >= 2 (holds)
OpenThenVerifyFromLengthTwo ==
    (Opened /\ SizeOK /\ Len(poly) >= 2 /\ card >= Len(poly)) =>
        /\ commitErr = nil
        /\ openErr = nil
        /\ (pc = "verified" /\ tamper = "none") => verifyErr = nil

\* C2 as stated: replacing one field of a proof that verifies makes Verify
\* return ErrVerifyOpeningProof.
C2_AnyMutationRejected ==
    (pc = "verified" /\ tamper # "none" /\ Verify(digest, proof, srs) = nil) =>
        verifyErr = ErrVerifyOpeningProof

\* the evaluation point is the SRS secret: [Point]G2 = [alpha]G2
PointIsAlpha(pr) == G2ScalarMultiplication(srs.G2[1], pr.Point) = srs.G2[2]

\* C2 amended: a changed ClaimedValue is always rejected; a changed H is
\* rejected exactly when [Point]G2 differs from [alpha]G2; a changed Point is
\* rejected exactly when H is not the identity.  Verify returns nil otherwise.
C2_MutationRejectedUnlessDegenerate ==
    (pc = "verified" /\ tamper # "none" /\ Verify(digest, proof, srs) = nil) =>
        /\ verifyErr \in {nil, ErrVerifyOpeningProof}
        /\ tamper = "ClaimedValue" => verifyErr = ErrVerifyOpeningProof
        /\ tamper = "H" => (verifyErr = ErrVerifyOpeningProof <=> ~PointIsAlpha(proof))
        /\ tamper = "Point" => (verifyErr = ErrVerifyOpeningProof <=> proof.H # 0)

C2_Witness ==
    /\ pc = "verified"
    /\ tamper = "Point"
    /\ Verify(digest, proof, srs) = nil
    /\ proof.H # 0
    /\ verifyErr = ErrVerifyOpeningProof

\* C5: Open returns ErrInvalidPolynomialSize exactly for an empty or too long
\* polynomial, else ErrInvalidDomain exactly for a domain smaller than the
\* polynomial, else a proof; Commit returns ErrInvalidPolynomialSize exactly
\* for an empty or too long polynomial.
C5_OpenAndCommitErrorsExact ==
    /\ pc # "start" =>
          commitErr = IF SizeOK THEN nil ELSE ErrInvalidPolynomialSize
    /\ Opened =>
          openErr = IF ~SizeOK THEN ErrInvalidPolynomialSize
                    ELSE IF card < Len(poly) THEN ErrInvalidDomain
                    ELSE nil

\* the Commit half of C5 (holds)
CommitErrorExact ==
    pc # "start" => commitErr = IF SizeOK THEN nil ELSE ErrInvalidPolynomialSize

\* --------------------------------------- batch opening at a single point
\* the commitment to the quotient (polys[i] - polys[i](point)) / (x - point)
IndividualH(i) ==
    LET h == dividePolyByXminusA(card, polys[i], Eval(polys[i], point), point)
    IN MultiExp(SubSeq(srs.G1, 1, Len(h)), h)

\* Verify of digest i at the point with the claimed value the verifier received
IndividualVerify(i) ==
    Verify(digests[i],
           [H |-> IndividualH(i), Point |-> point, ClaimedValue |-> bSent.ClaimedValues[i]],
           srs)

\* C3: BatchVerifySinglePoint succeeds iff, for every i, Verify of digest i at
\* the shared point with ClaimedValues[i] succeeds.
C3_BatchVerifyIffIndividual ==
    (pc = "bverified" /\ digests = DigestsOf(polys)) =>
        (bverifyErr = nil <=> \A i \in 1 .. Len(polys) : IndividualVerify(i) = nil)

\* the "if" half of C3 (holds): claimed values that all verify are accepted
BatchVerifyAcceptsTrueValues ==
    (pc = "bverified" /\ digests = DigestsOf(polys)
        /\ \A i \in 1 .. Len(polys) : IndividualVerify(i) = nil) => bverifyErr = nil

\* the last sentence of C3: the polynomials' own batch proof exists (fails
\* when every polynomial of the batch is a constant)
BatchOpenYieldsProof ==
    (pc = "proved" /\ Len(polys) >= 1 /\ digests = DigestsOf(polys)
        /\ checkPolys(polys, srs, card, 1) = nil) => batchRes.err = nil

\* ------------------------------------------------ Fiat-Shamir challenge
\* H("gamma" || point || digest_1 || ... || digest_m), reduced
GammaOf(pt, ds) ==
    frSetBytes(hashSum(<<LabelGamma>> \o frMarshal(pt)
                         \o [i \in 1 .. Len(ds) |-> g1Marshal(ds[i])[1]]))

\* C9: gamma is a function of the point and the ordered digests alone (the
\* point bound first, then the digests in order, the hash reset afterwards):
\* a second identical call returns the same proof, and FoldProof on the same
\* hash object derives the gamma BatchOpenSinglePoint derived.
C9_GammaReproducible ==
    /\ (pc \in {"proved", "reproved", "folded"} /\ batchRes.err = nil) =>
          batchRes.gamma = GammaOf(point, digests)
    /\ (pc = "proved" /\ batchRes.err = nil) => hf = hashReset
    /\ pc = "reproved" => (batchRes2 = batchRes /\ hf = hashReset)
    /\ (pc = "folded" /\ foldRes.err = nil) =>
          (foldRes.gamma = batchRes.gamma /\ hf = hashReset)

C9_Witness ==
    /\ pc = "folded"
    /\ foldRes.err = nil
    /\ Len(digests) >= 2
    /\ foldRes.gamma = batchRes.gamma
    /\ foldRes.gamma # 0

\* the injected failure is met by the call's deriveGamma
FailureHit ==
    \/ injected \in {"bindPoint", "challenge"}
    \/ injected = "bindDigest" /\ Len(digests) > 0
TranscriptErr == IF injected = "challenge" THEN errTranscriptChallenge ELSE errTranscriptBind

\* C10: a transcript failure during BatchOpenSinglePoint, FoldProof or
\* BatchVerifySinglePoint reaches the caller as that same error.
C10_TranscriptErrorPropagated ==
    /\ (pc = "proved" /\ FailureHit /\ Len(digests) = Len(polys)
          /\ checkPolys(polys, srs, card, 1) = nil) => batchRes.err = TranscriptErr
    /\ (pc = "folded" /\ FailureHit) => foldRes.err = TranscriptErr
    /\ (pc = "bverified" /\ FailureHit) => bverifyErr = TranscriptErr

\* the BatchOpenSinglePoint part of C10 (holds)
BatchOpenPropagatesTranscriptError ==
    (pc = "proved" /\ FailureHit /\ Len(digests) = Len(polys)
        /\ checkPolys(polys, srs, card, 1) = nil) => batchRes.err = TranscriptErr

\* ------------------------------------- batch verification, many points
AllVerify(ds, proofs) == \A i \in 1 .. Len(ds) : Verify(ds[i], proofs[i], srs) = nil

\* C4 as stated: pairs that verify one by one are accepted whatever is drawn,
\* and with the H of one proof replaced the batch is rejected whatever is drawn.
C4_BatchAcceptsValidRejectsCorruptH ==
    (pc = "mverified" /\ Len(mDigests) >= 1 /\ AllVerify(mDigests, mProofs)) =>
        mErr = IF mTamper = 0 THEN nil ELSE ErrVerifyOpeningProof

\* C4 amended: pairs that verify one by one are accepted whatever is drawn;
\* with the H at position k replaced the batch is rejected exactly when the
\* coefficient of position k is not zero (the first is one) and [Point_k]G2
\* differs from [alpha]G2, and accepted otherwise.
C4_CorruptHRejectedUnlessMasked ==
    (pc = "mverified" /\ Len(mDigests) >= 1 /\ AllVerify(mDigests, mProofs)) =>
        /\ mTamper = 0 => mErr = nil
        /\ mTamper # 0 =>
              mErr = IF mRandoms[mTamper] # 0 /\ ~PointIsAlpha(mProofs[mTamper])
                     THEN ErrVerifyOpeningProof ELSE nil

C4_Witness ==
    /\ pc = "mverified"
    /\ Len(mDigests) >= 2
    /\ AllVerify(mDigests, mProofs)
    /\ mTamper = 2
    /\ mRandoms[2] # 0
    /\ mErr = ErrVerifyOpeningProof

\* ------------------------------------------------------------ ratio claims
RatioBuilt(call) == pc = "built" /\ rCall = call
\* the polynomials the call was given
RatioInputs == IF rCall = "copy" THEN rNum ELSE rNum \o rDen
RatioLists == IF rCall = "copy" THEN <<rNum>> ELSE <<rNum, rDen>>
LengthsDiffer ==
    \E a, b \in 1 .. Len(RatioInputs) :
        Len(RatioInputs[a].coefficients) # Len(RatioInputs[b].coefficients)
ListsOfAtLeastOne ==
    /\ Len(rNum) >= 1
    /\ rCall = "shuffled" => Len(rDen) = Len(rNum)

\* C6: both builders, given lists of any length m >= 1, return
\* ErrInconsistentSize whenever two input polynomials (any index, any list)
\* differ in length, and the validation does not abort.
C6_UnequalLengthsRejected ==
    (pc = "built" /\ ListsOfAtLeastOne) =>
        /\ checkSize(RatioLists) # Panic
        /\ LengthsDiffer => rRes.err = ErrInconsistentSize

\* what the validation does establish: a call that gets past it was given
\* m first polynomials of one length in each of its lists
C6_CheckedPrefixEqual ==
    (pc = "built" /\ ListsOfAtLeastOne /\ rRes.err \notin {ErrInconsistentSize, Panic, ErrNumberPolynomials}) =>
        \A i \in 1 .. Len(RatioLists) : \A j \in 1 .. Len(RatioLists) :
            Len(RatioLists[i][j].coefficients) = FirstLen(rNum)

\* shuffled vectors: well-formed, multiset-equal inputs without zero terms
ShuffleN == FirstLen(rNum)
ShuffleWellFormed ==
    /\ ListsOfAtLeastOne
    /\ ShuffleN >= 1
    /\ ~LengthsDiffer
Occurrences(ps, v) ==
    Cardinality({kj \in (1 .. Len(ps)) \X (1 .. ShuffleN) : EvalAt(ps[kj[1]], kj[2] - 1) = v})
MultisetEqual == \A v \in FrI : Occurrences(rNum, v) = Occurrences(rDen, v)
DenominatorNonZero ==
    \A k \in 1 .. Len(rDen) : \A j \in 1 .. ShuffleN : ISub(rBeta, EvalAt(rDen[k], j - 1)) # 0
\* prod_k (beta - ps[k](w^(n-1))): the term of the step after the last entry
LastTerm(ps) ==
    LET RECURSIVE pr(_)
        pr(k) == IF k = 0 THEN 1
                 ELSE IMul(pr(k - 1), ISub(rBeta, EvalAt(ps[k], ShuffleN - 1)))
    IN pr(Len(ps))
ShuffleCase ==
    RatioBuilt("shuffled") /\ ShuffleWellFormed /\ MultisetEqual /\ DenominatorNonZero

CopyN == FirstLen(rNum)
CopyWellFormed ==
    /\ Len(rNum) >= 1
    /\ CopyN >= 1 /\ IsPowerOfTwoOrZero(CopyN)
    /\ ~LengthsDiffer
CopyDenominatorNonZero ==
    CopyN >= 2 =>
        LET ids == getSupportIdentityPermutation(Len(rNum), CopyN).res
        IN \A k \in 1 .. Len(rNum) : \A j \in 0 .. (CopyN - 2) :
              IAdd(IAdd(IMul(rBeta, ids[rPerm[j + (k - 1) * CopyN + 1] + 1]), rGamma),
                   EvalAt(rNum[k], j)) # 0
IdentityCase ==
    /\ RatioBuilt("copy") /\ CopyWellFormed
    /\ rPerm = Identity(Len(rNum) * CopyN)
    /\ CopyDenominatorNonZero

\* C8: with the identity permutation, for any entries, any beta, gamma and any
\* mix of layouts, BuildRatioCopyConstraint yields the polynomial whose n
\* evaluations are all 1, provided no denominator term is zero.
C8_IdentityYieldsAllOnes ==
    IdentityCase =>
        /\ rRes.err = nil
        /\ rRes.coefficients = [i \in 1 .. CopyN |-> 1]

\* the same for entries of size two or more
IdentityYieldsAllOnesFromSizeTwo ==
    (IdentityCase /\ CopyN >= 2) =>
        /\ rRes.err = nil
        /\ rRes.coefficients = [i \in 1 .. CopyN |-> 1]

\* ------------------------------------------------------ Commit's split
\* C11: for 1 <= len(p) <= SRS length the two-way split path (no limiter,
\* more than 16 CPUs) returns exactly the group element of the unsplit
\* multi-scalar multiplication over SRS.G1[:len(p)], and the two partial
\* results are combined only after both have completed.
C11_SplitEqualsUnsplit ==
    /\ sMain \in {"waited", "done"} => (sGo = "closed" /\ sP1 # Unwritten /\ sP2 # Unwritten)
    /\ (pc = "committed" /\ SizeOK) =>
          /\ commitErr = nil
          /\ digest = MultiExp(SubSeq(srs.G1, 1, Len(poly)), poly)
          /\ digest = Commit(poly, srs, FALSE, SplitCpus).digest
          /\ digest = Commit(poly, srs, FALSE, SplitCpus + 1).digest

C11_Witness ==
    /\ pc = "committed" /\ sMain = "done"
    /\ numCpus > SplitCpus
    /\ Len(poly) = 3 /\ poly[1] # 0 /\ poly[3] # 0
    /\ digest # 0

\* --------------------------------------------------------------- NewSRS
\* C12: NewSRS(size, alpha) returns ErrMinSRSSize and no SRS exactly when
\* size < 2; for size >= 2 the G1 list has exactly size elements with
\* G1[i] = alpha^i * generator (G1[0] the generator) and the G2 pair is
\* (generator, alpha * generator).
C12_NewSRSPowersOfAlpha ==
    pc = "created" =>
        /\ (nErr = ErrMinSRSSize) <=> (nSize < 2)
        /\ nSize < 2 => srs = NoSRS
        /\ nSize >= 2 =>
              /\ nErr = nil
              /\ Len(srs.G1) = nSize
              /\ srs.G1[1] = gen1Aff
              /\ \A i \in 1 .. (nSize - 1) : srs.G1[i + 1] = ((nAlpha ^ i) * gen1Aff) % Q
              /\ srs.G2 = <<gen2Aff, (nAlpha * gen2Aff) % Q>>

C12_Witness ==
    /\ pc = "created" /\ nErr = nil
    /\ nSize = MaxSRS
    /\ nAlpha > Q /\ nAlpha % Q \notin {0, 1}
    /\ srs.G1[MaxSRS] \notin {0, 1}

\* ------------------------------------------------- dividePolyByXminusA
\* the coefficients of h(x) * (x - a), as a polynomial of Len(h) + 1 terms
TimesXminusA(h, a) ==
    [i \in 1 .. (Len(h) + 1) |->
        FrSub(IF i = 1 THEN 0 ELSE h[i - 1],
              IF i = Len(h) + 1 THEN 0 ELSE FrMul(a, h[i]))]
DivResult == SubSeq(dBuf, 1, dLen)
\* the storage after the last turn of the loop
DivFinal ==
    LET full == [i \in 1 .. card |-> IF i <= Len(poly) THEN poly[i] ELSE 0]
    IN divLoop([full EXCEPT ![1] = FrSub(full[1], Eval(poly, point))], 0, point, card)

\* C13: for a buffer f of length L >= 1, capacity the domain cardinality and
\* zeros beyond L-1, a point a and fa = f(a), dividePolyByXminusA returns h
\* of length exactly L-1 with h(x) * (x - a) = f(x) - fa coefficient-wise; the
\* division runs from the highest index down to index 0, the result lives in
\* the storage of f, and the polynomial of Open's caller is unchanged.
C13_QuotientExact ==
    /\ pc = "dividing" =>
          /\ dI \in 0 .. card
          /\ \A i \in (dI + 1) .. card : dBuf[i] = DivFinal[i]
          /\ \A i \in 2 .. dI : dBuf[i] = (IF i <= Len(poly) THEN poly[i] ELSE 0)
    /\ pc \in {"divided", "opened"} /\ openErr \notin {ErrInvalidPolynomialSize, ErrInvalidDomain} =>
          /\ dLen = Len(poly) - 1
          /\ dI = 0
          /\ dC = 0
          /\ TimesXminusA(DivResult, point) =
                [poly EXCEPT ![1] = FrSub(poly[1], Eval(poly, point))]
          /\ DivResult = dividePolyByXminusA(card, poly, Eval(poly, point), point)
    /\ pc = "opened" =>
          LET o == Open(poly, point, card, srs, numCpus)
          IN openErr = o.err /\ proof = o.proof

C13_Witness ==
    /\ pc = "divided"
    /\ Len(poly) = MaxLen /\ card > Len(poly)
    /\ point # 0
    /\ \A i \in 1 .. dLen : DivResult[i] # 0

\* ------------------------------------------- copy constraint, interleavings
\* result[0] = 1, result[j+1] = result[j] * b_j / d_j
RECURSIVE SequentialRatio(_)
SequentialRatio(j) ==
    IF j = 0 THEN 1
    ELSE IMul(SequentialRatio(j - 1), IMul(CopyB(j - 1), IInverse(CopyD(j - 1))))
CopyAllDenominatorsNonZero == \A j \in 0 .. (CopyN0 - 2) : CopyD(j) # 0
\* two workers running between the same fork and join touch one index, one writing
Conflict ==
    \E a, b \in kAccess :
        a[1] # b[1] /\ a[2] = b[2] /\ a[3] = b[3] /\ "w" \in {a[4], b[4]}

\* C14: for every interleaving of the workers of BuildRatioCopyConstraint the
\* Lagrange/Regular result is the sequential recurrence result[0] = 1,
\* result[j+1] = result[j] * b_j / d_j (all d_j nonzero); no worker touches an
\* index of coeffs or t that a concurrently running worker writes, each prefix
\* product runs in increasing index order, and inversion starts only after
\* both prefix products have finished.
C14_InterleavingsGiveSequentialRatio ==
    /\ ~Conflict
    /\ kPhase = "prefix" =>
          /\ \A i \in 1 .. (kGo - 1) :
                kCoeffs[i + 1] = (IF i = 1 THEN CopyB(0) ELSE IMul(kCoeffs[i], CopyB(i - 1)))
          /\ \A i \in kGo .. (CopyN0 - 1) : kCoeffs[i + 1] = CopyB(i - 1)
          /\ \A i \in 1 .. (kMain - 1) :
                kT[i + 1] = (IF i = 1 THEN CopyD(0) ELSE IMul(kT[i], CopyD(i - 1)))
          /\ \A i \in kMain .. (CopyN0 - 1) : kT[i + 1] = CopyD(i - 1)
    /\ kPhase = "invert" => (kGo >= CopyN0 /\ kMain >= CopyN0 /\ kClosed)
    /\ (pc = "built" /\ kPhase = "done") =>
          /\ rRes = BuildRatioCopyConstraint(rNum, rPerm, rBeta, rGamma, rDomain)
          /\ CopyAllDenominatorsNonZero =>
                rRes.coefficients = [j \in 1 .. CopyN0 |-> SequentialRatio(j - 1)]

C14_Witness ==
    /\ pc = "built" /\ kPhase = "done"
    /\ CopyN0 = 2 ^ MaxLogN /\ Len(rNum) = 2
    /\ CopyAllDenominatorsNonZero
    /\ Len(kShards) >= 2
    /\ rPerm # Identity(Len(rNum) * CopyN0)
    /\ \A j \in 2 .. CopyN0 : rRes.coefficients[j] \notin {0, 1}

\* ------------------------------------------------ batch opening, interleavings
AllClaimedWritten == \A i \in 1 .. Len(eVals) : eVals[i] # Unwritten
\* sum_i gamma^i * f_i(point), term by term
SumOfPowers ==
    LET RECURSIVE sm(_)
        sm(i) == IF i = 0 THEN 0
                 ELSE FrAdd(sm(i - 1), FrMul(FrPow(eGamma, i - 1), Eval(polys[i], point)))
    IN sm(Len(polys))

\* C15: for every interleaving of the evaluation workers, the sum worker and
\* the caller, the folded sum S is computed only after every ClaimedValues[i]
\* is written, the division reads S only after the sum worker has finished,
\* S = sum_i gamma^i f_i(point), the value FoldProof folds from the returned
\* ClaimedValues, and the returned ClaimedValues are the unfolded evaluations.
C15_SumAfterEvaluations ==
    /\ eSumPc \in {"running", "closed"} => AllClaimedWritten
    /\ eMain = "divide" => eSumPc = "closed"
    /\ eSumPc = "closed" => eSum = SumOfPowers
    /\ (pc = "proved" /\ batchRes.err = nil) =>
          /\ eSumPc = "closed"
          /\ batchRes.proof.ClaimedValues = [i \in 1 .. Len(polys) |-> Eval(polys[i], point)]
          /\ LET f == FoldProof(digests, batchRes.proof, hf, "none")
             IN f.err = nil /\ f.proof.ClaimedValue = eSum
    /\ pc = "proved" =>
          LET r == BatchOpenSinglePoint(polys, digests, point, hashReset, card, srs, numCpus, injected)
          IN batchRes = [err |-> r.err, proof |-> r.proof, gamma |-> r.gamma]

C15_Witness ==
    /\ pc = "proved" /\ batchRes.err = nil
    /\ Len(polys) = MaxBatch
    /\ eGamma \notin {0, 1}
    /\ eSum # 0
    /\ \A i \in 1 .. Len(polys) : Len(polys[i]) >= 2 /\ eVals[i] # 0

\* --------------------------------------------------------- the final form
\* the data of p in Regular order, by its Layout tag
InRegularOrder(p) ==
    IF p.Layout = BitReverse THEN BitReverseSeq(p.coefficients) ELSE p.coefficients
\* the evaluations on 1, w, .., w^(n-1) of the polynomial that p stores, by its tags
EvaluationsOf(p) ==
    LET n == Len(p.coefficients)
        dom == NewDomain(n)
        d == InRegularOrder(p)
        \* interpolation from the values on the coset g, g w, ..
        gInv == IInverse(dom.FrMultiplicativeGen)
        wInv == IInverse(dom.Generator)
        fromCoset == [k \in 1 .. n |->
                         IMul(IMul(IInverse(n % QI), IPow(gInv, k - 1)),
                              EvalCanonical(d, IPow(wInv, k - 1)))]
        c == IF p.Basis = Canonical THEN d ELSE fromCoset
    IN IF p.Basis = Lagrange THEN d
       ELSE [j \in 1 .. n |-> EvalCanonical(c, IPow(dom.Generator, j - 1))]

\* C16: from data in Lagrange basis, Regular layout, for each of the six
\* requested forms, putInExpectedFormFromLagrangeRegular sets Basis and Layout
\* to the requested form and leaves the data stored in that basis and that
\* index order (the polynomial read back by the tags is the one handed over);
\* requested Lagrange/Regular leaves the data unchanged.
C16_TagsAgreeWithData ==
    pc = "formed" =>
        /\ fRes.Basis = fForm.Basis /\ fRes.Layout = fForm.Layout
        /\ Len(fRes.coefficients) = Len(fData)
        /\ EvaluationsOf(fRes) = fData
        /\ (fForm.Basis = Lagrange /\ fForm.Layout = Regular) => fRes.coefficients = fData

C16_Witness ==
    /\ pc = "formed"
    /\ Len(fData) = 2 ^ MaxLogN
    /\ fForm = [Basis |-> LagrangeCoset, Layout |-> BitReverse]
    /\ fRes.coefficients # fData
    /\ BitReverseSeq(fRes.coefficients) # fRes.coefficients

\* ------------------------------------------------ aborts on empty lists
\* C17: for every pair of equal-length input lists, two empty lists included,
\* BatchOpenSinglePoint (polynomials, digests) and BatchVerifyMultiPoints
\* (digests, proofs) end with a result or one of their errors; neither aborts
\* on an out-of-range index or a negative-length allocation.
C17_NoAbortOnEqualLengthLists ==
    /\ (pc = "proved" /\ Len(polys) = Len(digests)) => batchRes.err # Panic
    /\ (pc = "mverified" /\ Len(mDigests) = Len(mSent)) => mErr # Panic

====
